---- MODULE Spec2Model ----
(***************************************************************************)
(* Debt features of the ledger: the interest schedule manager, the         *)
(* interest poster (interest-automation.ts) and the debt candidate scorer  *)
(* (detectDebtAccounts), over the ledger's storage tables.                 *)
(*                                                                         *)
(* Every `await` of setup, update, delete and post is one atomic step of   *)
(* the call running it; a step takes in the synchronous code up to the     *)
(* next `await`.  detectDebtAccounts only reads: its account query, each   *)
(* iteration of its loop and its return are one step each.                 *)
(* Text that the code only stores and compares (ids, JSON) is a string;    *)
(* text that the code searches (names, notes) is a tuple of characters.    *)
(* Money is integer cents; an APR is held in hundredths of a percent       *)
(* (1850 is 18.5%).  An optional value is <<>> (null/undefined) or <<v>>.  *)
(***************************************************************************)
EXTENDS Integers, Sequences, FiniteSets, TLC

VARIABLES
    rules,                \* table rules: [id, stage]
    rule_conditions,      \* table rule_conditions: [id, rule, field, op, value]
    rule_actions,         \* table rule_actions: [id, rule, field, op, value]
    schedules,            \* table schedules: [id, rule, active, completed, posts_transaction, name]
    schedules_next_date,  \* table schedules_next_date: [id, schedule_id, local_next_date, base_next_date]
    payees,               \* table payees: [id, name]
    transactions,         \* table transactions
    accounts,             \* table accounts, in the order the account query returns them
    categories,           \* table categories: [id, name, tombstone]
    today,                \* monthUtils.currentDay()
    uuid,                 \* number of ids each call slot has generated
    mode,                 \* how the caller schedules calls: "seq", "acct" or "race"
    pc,                   \* per call slot: the await the call is suspended at
    loc,                  \* per call slot: arguments and locals of the running call,
                          \* and the storage as it was when the call started
    last,                 \* the call that completed last, with what it returned
    lastOp,               \* per account: the schedule operation that completed last
    calls,                \* number of calls started
    detected,             \* what detectDebtAccounts returned last
    calc,                 \* a formula under examination: its arguments and results
    wizard                \* DebtMigrationWizard: its React state, its running handlers,
                          \* and what the server has done for it

tables == <<rules, rule_conditions, rule_actions, schedules, schedules_next_date,
            payees, transactions>>
ledger == <<accounts, categories>>
vars == <<rules, rule_conditions, rule_actions, schedules, schedules_next_date,
          payees, transactions, accounts, categories, today, uuid, mode, pc, loc,
          last, lastOp, calls, detected,
          calc, wizard>>

----
\* Bounds of the model.
MaxCalls == 3
MaxConcurrentCalls == 2
MaxDetectCalls == 2
MaxFailureCalls == 3

\* Optional values.
None == <<>>
Some(v) == <<v>>
IsNone(o) == o = <<>>
The(o) == o[1]

NULL == "NULL"
Slots == 1..2
AccountIds == {"a1", "a2"}

----
\* Text.  A searched text is a tuple of characters; toLowerCase and includes
\* are computed character by character.
UpperCase == <<"A","B","C","D","E","F","G","H","I","J","K","L","M",
               "N","O","P","Q","R","S","T","U","V","W","X","Y","Z">>
LowerCase == <<"a","b","c","d","e","f","g","h","i","j","k","l","m",
               "n","o","p","q","r","s","t","u","v","w","x","y","z">>

LowerOf ==
    [c \in {UpperCase[i] : i \in 1..26} |->
        LowerCase[CHOOSE i \in 1..26 : UpperCase[i] = c]]

LowerChar(c) == IF c \in DOMAIN LowerOf THEN LowerOf[c] ELSE c

toLowerCase(t) == [i \in 1..Len(t) |-> LowerChar(t[i])] \o <<>>

includes(t, k) ==
    \E i \in 0..(Len(t) - Len(k)) : \A j \in 1..Len(k) : t[i + j] = k[j]

\* String(n) for a natural number, as characters.
RECURSIVE DigitChars(_)
DigitChars(n) ==
    IF n < 10 THEN <<ToString(n)>>
    ELSE DigitChars(n \div 10) \o <<ToString(n % 10)>>

\* The characters of String(x) of the number whose hundredths are h: 1850
\* gives "18.5", 1800 gives "18", 1805 gives "18.05".
NumberChars(h) ==
    LET a == IF h < 0 THEN -h ELSE h
        w == a \div 100
        f == a % 100
        sign == IF h < 0 THEN <<"-">> ELSE <<>>
    IN  IF f = 0 THEN sign \o DigitChars(w)
        ELSE IF f % 10 = 0 THEN sign \o DigitChars(w) \o <<".", ToString(f \div 10)>>
        ELSE sign \o DigitChars(w) \o <<".", ToString(f \div 10), ToString(f % 10)>>

\* The string whose characters are t.
RECURSIVE Join(_)
Join(t) == IF t = <<>> THEN "" ELSE Head(t) \o Join(Tail(t))

NumberString(h) == Join(NumberChars(h))

\* The characters of the scheme names.
Chars(str) ==
    CASE str = "simple" -> <<"s","i","m","p","l","e">>
      [] str = "compound_monthly" ->
            <<"c","o","m","p","o","u","n","d","_","m","o","n","t","h","l","y">>
      [] str = "compound_daily" ->
            <<"c","o","m","p","o","u","n","d","_","d","a","i","l","y">>
      [] str = "compound_annually" ->
            <<"c","o","m","p","o","u","n","d","_","a","n","n","u","a","l","l","y">>
      [] OTHER -> <<str>>

INTEREST_CHARGE == <<"I","n","t","e","r","e","s","t"," ","C","h","a","r","g","e">>

----
\* Calendar.  A day is [y, m, d]; a month is [y, m].
IsLeapYear(y) == (y % 4 = 0 /\ y % 100 # 0) \/ y % 400 = 0

\* February always of 28 days.
DaysInMonthCommon(y, m) ==
    IF m = 2 THEN 28
    ELSE IF m \in {4, 6, 9, 11} THEN 30 ELSE 31

\* new Date(year, month, 0).getDate(): the number of days of the month.
DaysInMonth(y, m) ==
    IF m = 2 THEN (IF IsLeapYear(y) THEN 29 ELSE 28)
    ELSE IF m \in {4, 6, 9, 11} THEN 30 ELSE 31

\* monthUtils.addMonths(day, n), n >= 0: the month n months after the day's.
addMonths(day, n) ==
    LET k == (day.m - 1) + n
    IN  [y |-> day.y + (k \div 12), m |-> (k % 12) + 1]

\* monthUtils.lastDayOfMonth(month)
lastDayOfMonth(month) ==
    [y |-> month.y, m |-> month.m, d |-> DaysInMonth(month.y, month.m)]

\* monthUtils.currentDay()
currentDay == today

\* db.toDateRepr(monthUtils.dayFromDate(day)): the day as the integer YYYYMMDD.
toDateRepr(day) == day.y * 10000 + day.m * 100 + day.d

\* The day an integer YYYYMMDD stands for.
fromDateRepr(n) == [y |-> n \div 10000, m |-> (n \div 100) % 100, d |-> n % 100]

\* The requested day taken as it is.
getNextInterestDateUnclamped(interestPostingDay, fromDate) ==
    LET current == IF IsNone(fromDate) THEN currentDay ELSE The(fromDate)
        nextMonth == addMonths(current, 1)
    IN  IF IsNone(interestPostingDay)
        THEN lastDayOfMonth(nextMonth)
        ELSE LET year == nextMonth.y
                 month == nextMonth.m
                 lastDay == DaysInMonth(year, month)
                 day == The(interestPostingDay)
             IN  [y |-> year, m |-> month, d |-> day]

\* getNextInterestDate(interestPostingDay, fromDate)
getNextInterestDate(interestPostingDay, fromDate) ==
    LET current == IF IsNone(fromDate) THEN currentDay ELSE The(fromDate)
        nextMonth == addMonths(current, 1)
    IN  IF IsNone(interestPostingDay)
        THEN lastDayOfMonth(nextMonth)
        ELSE LET year == nextMonth.y
                 month == nextMonth.m
                 lastDay == DaysInMonth(year, month)
                 day == IF The(interestPostingDay) < lastDay
                        THEN The(interestPostingDay) ELSE lastDay
             IN  [y |-> year, m |-> month, d |-> day]

----
\* Interest formulas.
Abs(x) == IF x < 0 THEN -x ELSE x

Min(a, b) == IF a < b THEN a ELSE b

\* Math.round(n / d) for d > 0: the nearest integer, a half going up.
RoundDiv(n, d) == (n + d \div 2) \div d

SimpleInterest(principal, apr) == RoundDiv(principal * apr, 120000)

\* Exact arithmetic on naturals too large for a machine word: a number is the
\* tuple of its base-100 digits, least significant first.
Digit(a, i) == IF i <= Len(a) THEN a[i] ELSE 0

\* The function f on 1..n as the tuple of its values.
Tuple(f) == f \o <<>>

\* Carry propagation: every digit keeps its value below 100 and hands the rest
\* (a borrow, when negative) to the next digit, until no digit has any left.
RECURSIVE Carry(_)
Carry(u) ==
    IF \A i \in 1..Len(u) : u[i] \in 0..99 THEN u
    ELSE Carry(Tuple([i \in 1..Len(u) |->
                         (u[i] % 100) + (IF i = 1 THEN 0 ELSE u[i - 1] \div 100)]))

\* Without its leading zero digits.
Trim(u) ==
    LET used == {i \in 1..Len(u) : u[i] # 0}
    IN  IF used = {} THEN <<>>
        ELSE SubSeq(u, 1, CHOOSE i \in used : \A j \in used : j <= i)

\* a * k for a machine-word k, 0 <= k <= 20000000
BigTimes(a, k) ==
    Trim(Carry(Tuple([i \in 1..(Len(a) + 5) |-> Digit(a, i) * k])))

\* acc * k^e; each product is computed before the next is asked for.
RECURSIVE BigPowerFrom(_, _, _)
BigPowerFrom(acc, k, e) ==
    IF e = 0 THEN acc
    ELSE LET next == BigTimes(acc, k)
         IN  IF Len(next) >= 0 THEN BigPowerFrom(next, k, e - 1) ELSE <<>>

BigPower(k, e) == BigPowerFrom(<<1>>, k, e)

\* a - b for a >= b
BigMinus(a, b) ==
    Trim(Carry(Tuple([i \in 1..Len(a) |-> Digit(a, i) - Digit(b, i)])))

BigLess(a, b) ==
    LET n == IF Len(a) < Len(b) THEN Len(b) ELSE Len(a)
    IN  \E i \in 1..n : /\ Digit(a, i) < Digit(b, i)
                        /\ \A j \in (i + 1)..n : Digit(a, j) = Digit(b, j)

BigLeq(a, b) == ~BigLess(b, a)

\* Math.round(P * (1 + r/365)^30 - P) with r = apr/100, apr in hundredths of a
\* percent, apr > 0: with A = 3650000 + apr and B = 3650000 the interest is
\* P * (A^30 - B^30) / B^30, and its rounding is the largest n with
\* (2n - 1) * B^30 <= 2 * P * (A^30 - B^30).
RECURSIVE LargestWith(_, _, _, _)
LargestWith(num, den, lo, hi) ==
    \* the largest n in lo..(hi-1) with (2n - 1) * den <= num, given it holds at lo
    IF hi - lo <= 1 THEN lo
    ELSE LET mid == (lo + hi) \div 2
         IN  IF BigLeq(BigTimes(den, 2 * mid - 1), num)
             THEN LargestWith(num, den, mid, hi)
             ELSE LargestWith(num, den, lo, mid)

CompoundDailyInterest(principal, apr) ==
    LET den == BigPower(3650000, 30)
        num == BigTimes(BigMinus(BigPower(3650000 + apr, 30), den), 2 * principal)
    IN  LargestWith(num, den, 0, 2 * principal + 1)

\* Math.round(P * (1 + r)^(1/12) - P): the largest n with
\* ((2P + 2n - 1) / 2P)^12 <= 1 + r, that is
\* (2P + 2n - 1)^12 * 10000 <= (10000 + apr) * (2P)^12.
RECURSIVE LargestRoot(_, _, _, _)
LargestRoot(principal, bound, lo, hi) ==
    IF hi - lo <= 1 THEN lo
    ELSE LET mid == (lo + hi) \div 2
         IN  IF BigLeq(BigTimes(BigPower(2 * principal + 2 * mid - 1, 12), 10000), bound)
             THEN LargestRoot(principal, bound, mid, hi)
             ELSE LargestRoot(principal, bound, lo, mid)

CompoundAnnuallyInterest(principal, apr) ==
    LargestRoot(principal, BigTimes(BigPower(2 * principal, 12), 10000 + apr),
                0, 2 * principal + 1)

\* No interest for a scheme that is none of the four.
calculateInterestKnown(balance, apr, interestScheme, compoundingFrequency) ==
    LET principal == Abs(balance)
    IN  IF principal = 0 \/ apr = 0 THEN 0
        ELSE CASE interestScheme = "simple" -> SimpleInterest(principal, apr)
               [] interestScheme = "compound_monthly" ->
                      RoundDiv(principal * apr, 120000)
               [] interestScheme = "compound_daily" ->
                      CompoundDailyInterest(principal, apr)
               [] interestScheme = "compound_annually" ->
                      CompoundAnnuallyInterest(principal, apr)
               [] OTHER -> 0

\* calculateInterest(balance, apr, interestScheme, _compoundingFrequency)
calculateInterest(balance, apr, interestScheme, compoundingFrequency) ==
    LET principal == Abs(balance)
    IN  IF principal = 0 \/ apr = 0 THEN 0
        ELSE CASE interestScheme = "simple" -> SimpleInterest(principal, apr)
               [] interestScheme = "compound_monthly" ->
                      RoundDiv(principal * apr, 120000)
               [] interestScheme = "compound_daily" ->
                      CompoundDailyInterest(principal, apr)
               [] interestScheme = "compound_annually" ->
                      CompoundAnnuallyInterest(principal, apr)
               [] OTHER -> RoundDiv(principal * apr, 120000)

\* The monthly rate taken for the annual one.
InverseSimpleMonthly(absInterest, absPrincipal) ==
    RoundDiv(10000 * absInterest, absPrincipal)

\* calculateAPRFromInterest(interestCharged, principal, interestScheme): null
\* or the rate in hundredths of a percent (the code rounds it to two decimals).
\* Simple and compound monthly: Math.round((I / P) * 12 * 100 * 100) / 100.
InverseSimple(absInterest, absPrincipal) ==
    RoundDiv(120000 * absInterest, absPrincipal)

\* Compound daily: Math.round(365 * ((1 + I/P)^(1/30) - 1) * 10000), the
\* largest n with (7300000 + 2n - 1)^30 * P <= 7300000^30 * (P + I).
RECURSIVE LargestDailyRate(_, _, _, _)
LargestDailyRate(absPrincipal, bound, lo, hi) ==
    IF hi - lo <= 1 THEN lo
    ELSE LET mid == (lo + hi) \div 2
         IN  IF BigLeq(BigTimes(BigPower(7300000 + 2 * mid - 1, 30), absPrincipal),
                       bound)
             THEN LargestDailyRate(absPrincipal, bound, mid, hi)
             ELSE LargestDailyRate(absPrincipal, bound, lo, mid)

\* The search starts from 3650000 * y / (30 * (1 + y)) <= n <= 3650000 * y / 30
\* for y = I / P, where the products fit a machine word.
InverseCompoundDaily(absInterest, absPrincipal) ==
    LargestDailyRate(absPrincipal,
                     BigTimes(BigPower(7300000, 30), absPrincipal + absInterest),
                     IF absInterest <= 17000
                     THEN (121666 * absInterest) \div (absPrincipal + absInterest)
                     ELSE 0,
                     IF absInterest <= 17000
                     THEN Min((121667 * absInterest) \div absPrincipal + 2, 6000000)
                     ELSE 6000000)

\* Compound annually: Math.round(((1 + I/P)^12 - 1) * 10000), the largest n
\* with (20000 + 2n - 1) * P^12 <= 20000 * (P + I)^12; computed for I up to
\* three quarters of P, where n stays within a machine word.
RECURSIVE LargestAnnualRate(_, _, _, _)
LargestAnnualRate(den, bound, lo, hi) ==
    IF hi - lo <= 1 THEN lo
    ELSE LET mid == (lo + hi) \div 2
         IN  IF BigLeq(BigTimes(den, 20000 + 2 * mid - 1), bound)
             THEN LargestAnnualRate(den, bound, mid, hi)
             ELSE LargestAnnualRate(den, bound, lo, mid)

InverseCompoundAnnually(absInterest, absPrincipal) ==
    LargestAnnualRate(BigPower(absPrincipal, 12),
                      BigTimes(BigPower(absPrincipal + absInterest, 12), 20000),
                      0, 9990000)

\* The amounts taken with their signs.
calculateAPRFromInterestSigned(interestCharged, principal, interestScheme) ==
    IF principal = 0 \/ interestCharged = 0 THEN None
    ELSE LET absPrincipal == principal
             absInterest == interestCharged
         IN  CASE interestScheme = "simple" ->
                      Some(InverseSimple(absInterest, absPrincipal))
               [] interestScheme = "compound_monthly" ->
                      Some(RoundDiv(120000 * absInterest, absPrincipal))
               [] interestScheme = "compound_daily" ->
                      Some(InverseCompoundDaily(absInterest, absPrincipal))
               [] interestScheme = "compound_annually" ->
                      Some(InverseCompoundAnnually(absInterest, absPrincipal))
               [] OTHER -> Some(RoundDiv(120000 * absInterest, absPrincipal))

calculateAPRFromInterest(interestCharged, principal, interestScheme) ==
    IF principal = 0 \/ interestCharged = 0 THEN None
    ELSE LET absPrincipal == Abs(principal)
             absInterest == Abs(interestCharged)
         IN  CASE interestScheme = "simple" ->
                      Some(InverseSimple(absInterest, absPrincipal))
               [] interestScheme = "compound_monthly" ->
                      Some(RoundDiv(120000 * absInterest, absPrincipal))
               [] interestScheme = "compound_daily" ->
                      Some(InverseCompoundDaily(absInterest, absPrincipal))
               [] interestScheme = "compound_annually" ->
                      Some(InverseCompoundAnnually(absInterest, absPrincipal))
               [] OTHER -> Some(RoundDiv(120000 * absInterest, absPrincipal))

\* JSON.stringify({apr, interestScheme, compoundingFrequency})
JSONstringify(apr, interestScheme, compoundingFrequency) ==
    "{\"apr\":" \o NumberString(apr)
      \o ",\"interestScheme\":\"" \o interestScheme
      \o "\",\"compoundingFrequency\":\"" \o compoundingFrequency \o "\"}"

----
\* Storage.  The storage as one value, for comparing two moments.
Store ==
    [rules |-> rules, rule_conditions |-> rule_conditions,
     rule_actions |-> rule_actions, schedules |-> schedules,
     schedules_next_date |-> schedules_next_date, payees |-> payees,
     transactions |-> transactions]

EmptyStore ==
    [rules |-> {}, rule_conditions |-> {}, rule_actions |-> {}, schedules |-> {},
     schedules_next_date |-> {}, payees |-> {}, transactions |-> {}]

\* uuidv4(): the n-th id generated in call slot p; no two are equal.
uuidv4(p, n) == "u" \o ToString(p) \o "-" \o ToString(n)

\* db.first(sql, params): one of the rows the query selects, or null.
first(rows) == IF rows = {} THEN {None} ELSE {Some(r) : r \in rows}

\* db.delete_(table, id): the table without the row of that id.
delete_(table, id) == {r \in table : r.id # id}

\* db.delete_(table, {rule}): the table without the rows of that rule.
deleteWhereRule(table, rule) == {r \in table : r.rule # rule}

\* db.update(table, {id, value}): the row of that id with the new value.
update(table, id, value) ==
    {IF r.id = id THEN [r EXCEPT !.value = value] ELSE r : r \in table}

\* SELECT s.id, s.rule FROM schedules s JOIN rules r ON r.id = s.rule
\* JOIN rule_conditions rc ON rc.rule = r.id
\* WHERE rc.field = 'acct' AND rc.value = ? AND r.stage IS NULL
SelectScheduleNone(accountId) == {}

SelectSchedule(accountId) ==
    {[id |-> s.id, rule |-> s.rule] : s \in
        {s \in schedules :
            \E r \in rules : \E rc \in rule_conditions :
                /\ r.id = s.rule
                /\ rc.rule = r.id
                /\ rc.field = "acct"
                /\ rc.value = accountId
                /\ r.stage = NULL}}

\* SELECT id FROM payees WHERE name = 'Interest Charge'
SelectInterestPayeeNone == {}

SelectInterestPayee == {r \in payees : r.name = INTEREST_CHARGE}

\* SELECT id FROM rule_actions WHERE rule = ? AND field = ?
SelectAction(ruleId, field) ==
    {r \in rule_actions : r.rule = ruleId /\ r.field = field}

\* SELECT sum(amount) as balance FROM transactions WHERE acct = ? AND tombstone = 0
\* (null, read as 0, when no row matches).
RECURSIVE SumAmounts(_)
SumAmounts(rows) ==
    IF rows = {} THEN 0
    ELSE LET r == CHOOSE x \in rows : TRUE
         IN  r.amount + SumAmounts(rows \ {r})

SelectBalanceAll(accountId) ==
    SumAmounts({t \in transactions : t.acct = accountId})

SelectBalance(accountId) ==
    SumAmounts({t \in transactions : t.acct = accountId /\ t.tombstone = 0})

----
\* Calls.  A call occupies a slot from its start to its return.
NoDay == [y |-> 0, m |-> 0, d |-> 0]

IdleLoc ==
    [op |-> "", accountId |-> "", apr |-> 0, interestScheme |-> "",
     compoundingFrequency |-> "", interestPostingDay |-> None,
     interestCategoryId |-> "", date |-> None,
     existing |-> None, scheduleId |-> "", ruleId |-> "", interestPayeeId |-> "",
     action |-> None, interestAmount |-> 0, nextDate |-> NoDay,
     accounts |-> <<>>, candidates |-> <<>>,
     pre |-> EmptyStore]

NoCall ==
    [op |-> "", accountId |-> "", apr |-> 0, interestScheme |-> "",
     compoundingFrequency |-> "", interestPostingDay |-> None,
     interestCategoryId |-> "", date |-> None, existing |-> None,
     result |-> "", error |-> "", interestAmount |-> 0, prior |-> "",
     pre |-> EmptyStore]

ScheduleOps == {"setup", "delete"}

\* The caller's discipline: calls one after the other ("seq"), schedule
\* mutations of one account one after the other ("acct"), or none ("race");
\* "detect" is "seq" on the ledgers that detection is examined on and "fail" is
\* "seq" on a storage that can fail.
MayStart(op, accountId) ==
    CASE mode \in {"seq", "detect", "fail"} -> \A q \in Slots : pc[q] = "idle"
      [] mode = "acct" ->
            op \in ScheduleOps =>
                \A q \in Slots :
                    pc[q] # "idle" /\ loc[q].op \in ScheduleOps
                        => loc[q].accountId # accountId
      [] OTHER -> TRUE

\* A new call takes the first free slot.
FreeSlot(p) == pc[p] = "idle" /\ \A q \in Slots : q < p => pc[q] # "idle"

\* The call of slot p returns (error = "") or throws.
Return(p, result, error) ==
    /\ pc' = [pc EXCEPT ![p] = "idle"]
    /\ loc' = [loc EXCEPT ![p] = IdleLoc]
    /\ last' = [op |-> loc[p].op, accountId |-> loc[p].accountId,
                apr |-> loc[p].apr, interestScheme |-> loc[p].interestScheme,
                compoundingFrequency |-> loc[p].compoundingFrequency,
                interestPostingDay |-> loc[p].interestPostingDay,
                interestCategoryId |-> loc[p].interestCategoryId,
                date |-> loc[p].date, existing |-> loc[p].existing,
                result |-> result, error |-> error,
                interestAmount |-> loc[p].interestAmount,
                prior |-> IF loc[p].op \in ScheduleOps
                          THEN lastOp[loc[p].accountId] ELSE last.op,
                pre |-> loc[p].pre]
    /\ lastOp' = IF loc[p].op \in ScheduleOps
                 THEN [lastOp EXCEPT ![loc[p].accountId] =
                          IF error = "" THEN loc[p].op ELSE loc[p].op \o "_failed"]
                 ELSE lastOp

Goto(p, label, locals) ==
    /\ pc' = [pc EXCEPT ![p] = label]
    /\ loc' = [loc EXCEPT ![p] = locals]
    /\ UNCHANGED <<last, lastOp>>

Fixed == <<accounts, categories, today, mode, calls, detected, calc, wizard>>

----
\* Inputs of the calls.
CategoryIds == {"c1", "c2"}

SetupInputs ==
    {[apr |-> 1850, interestScheme |-> "simple", compoundingFrequency |-> "monthly",
      interestPostingDay |-> Some(15), interestCategoryId |-> "c1"],
     [apr |-> 2400, interestScheme |-> "compound_daily",
      compoundingFrequency |-> "daily",
      interestPostingDay |-> None, interestCategoryId |-> "c2"],
     [apr |-> 1850, interestScheme |-> "simple", compoundingFrequency |-> "monthly",
      interestPostingDay |-> Some(31), interestCategoryId |-> "c2"]}

PostInputs ==
    {[apr |-> 1850, interestScheme |-> "simple", compoundingFrequency |-> "monthly",
      interestCategoryId |-> "c1", date |-> None],
     [apr |-> 1200, interestScheme |-> "compound_monthly",
      compoundingFrequency |-> "monthly",
      interestCategoryId |-> "c2", date |-> Some([y |-> 2024, m |-> 3, d |-> 1])],
     [apr |-> 0, interestScheme |-> "simple", compoundingFrequency |-> "monthly",
      interestCategoryId |-> "c1", date |-> None]}

\* What the caller may still do: a bounded number of calls; under the
\* concurrent disciplines one parameter set per operation, and on the detection
\* ledgers the first account only.
CallBudget ==
    CASE mode = "seq" -> MaxCalls
      [] mode = "detect" -> MaxDetectCalls
      [] mode = "fail" -> MaxFailureCalls
      [] OTHER -> MaxConcurrentCalls

ConcurrentSetupInputs == {i \in SetupInputs : i.interestPostingDay = Some(15)}

ConcurrentPostInputs == {i \in PostInputs : i.apr = 1850}

CallerAccounts == IF mode = "detect" THEN {"a1"} ELSE AccountIds

CallerSetupInputs == IF mode = "seq" THEN SetupInputs ELSE ConcurrentSetupInputs

CallerPostInputs == IF mode = "seq" THEN PostInputs ELSE ConcurrentPostInputs

----
\* setupInterestSchedule(params)
CallSetup(p) ==
    /\ FreeSlot(p)
    /\ calls < CallBudget
    /\ \E accountId \in CallerAccounts : \E input \in CallerSetupInputs :
          /\ MayStart("setup", accountId)
          /\ pc' = [pc EXCEPT ![p] = "setup_lookup"]
          /\ loc' = [loc EXCEPT ![p] =
                [IdleLoc EXCEPT !.op = "setup", !.accountId = accountId,
                    !.apr = input.apr, !.interestScheme = input.interestScheme,
                    !.compoundingFrequency = input.compoundingFrequency,
                    !.interestPostingDay = input.interestPostingDay,
                    !.interestCategoryId = input.interestCategoryId,
                    !.pre = Store]]
    /\ calls' = calls + 1
    /\ UNCHANGED <<tables, accounts, categories, today, uuid, mode, last, lastOp,
                   detected, calc, wizard>>

\* const existingSchedule = await db.first(...); either on to the update, or
\* scheduleId = uuidv4(), ruleId = uuidv4() and on to the payee lookup.
SetupLookup(p) ==
    /\ pc[p] = "setup_lookup"
    /\ \E existingSchedule \in first(SelectSchedule(loc[p].accountId)) :
          IF ~IsNone(existingSchedule)
          THEN /\ Goto(p, "update_config_find",
                       [loc[p] EXCEPT !.existing = existingSchedule,
                                      !.scheduleId = The(existingSchedule).id,
                                      !.ruleId = The(existingSchedule).rule])
               /\ UNCHANGED uuid
          ELSE /\ Goto(p, "setup_payee_find",
                       [loc[p] EXCEPT !.scheduleId = uuidv4(p, uuid[p] + 1),
                                      !.ruleId = uuidv4(p, uuid[p] + 2)])
               /\ uuid' = [uuid EXCEPT ![p] = @ + 2]
    /\ UNCHANGED <<tables, Fixed>>

\* const interestPayee = await db.first('SELECT id FROM payees WHERE name = ?')
SetupPayeeFind(p) ==
    /\ pc[p] = "setup_payee_find"
    /\ \E interestPayee \in first(SelectInterestPayee) :
          IF ~IsNone(interestPayee)
          THEN Goto(p, "setup_rule",
                    [loc[p] EXCEPT !.interestPayeeId = The(interestPayee).id])
          ELSE Goto(p, "setup_payee_insert", loc[p])
    /\ UNCHANGED <<tables, uuid, Fixed>>

\* interestPayeeId = await db.insertPayee({ name: 'Interest Charge' })
SetupPayeeInsert(p) ==
    /\ pc[p] = "setup_payee_insert"
    /\ payees' = payees \cup {[id |-> uuidv4(p, uuid[p] + 1), name |-> INTEREST_CHARGE]}
    /\ uuid' = [uuid EXCEPT ![p] = @ + 1]
    /\ Goto(p, "setup_rule", [loc[p] EXCEPT !.interestPayeeId = uuidv4(p, uuid[p] + 1)])
    /\ UNCHANGED <<rules, rule_conditions, rule_actions, schedules,
                   schedules_next_date, transactions, Fixed>>

\* await db.insert('rules', { id: ruleId, stage: null })
SetupRule(p) ==
    /\ pc[p] = "setup_rule"
    /\ rules' = rules \cup {[id |-> loc[p].ruleId, stage |-> NULL]}
    /\ Goto(p, "setup_condition", loc[p])
    /\ UNCHANGED <<rule_conditions, rule_actions, schedules, schedules_next_date,
                   payees, transactions, uuid, Fixed>>

\* await db.insert('rule_conditions', { rule, field: 'acct', op: 'is', value })
SetupCondition(p) ==
    /\ pc[p] = "setup_condition"
    /\ rule_conditions' = rule_conditions \cup
          {[id |-> uuidv4(p, uuid[p] + 1), rule |-> loc[p].ruleId, field |-> "acct",
            op |-> "is", value |-> loc[p].accountId]}
    /\ uuid' = [uuid EXCEPT ![p] = @ + 1]
    /\ Goto(p, "setup_action_payee", loc[p])
    /\ UNCHANGED <<rules, rule_actions, schedules, schedules_next_date, payees,
                   transactions, Fixed>>

\* await db.insert('rule_actions', { rule, field: 'payee', op: 'set', value })
SetupActionPayee(p) ==
    /\ pc[p] = "setup_action_payee"
    /\ rule_actions' = rule_actions \cup
          {[id |-> uuidv4(p, uuid[p] + 1), rule |-> loc[p].ruleId, field |-> "payee",
            op |-> "set", value |-> loc[p].interestPayeeId]}
    /\ uuid' = [uuid EXCEPT ![p] = @ + 1]
    /\ Goto(p, "setup_action_category", loc[p])
    /\ UNCHANGED <<rules, rule_conditions, schedules, schedules_next_date, payees,
                   transactions, Fixed>>

\* await db.insert('rule_actions', { rule, field: 'category', op: 'set', value })
SetupActionCategory(p) ==
    /\ pc[p] = "setup_action_category"
    /\ rule_actions' = rule_actions \cup
          {[id |-> uuidv4(p, uuid[p] + 1), rule |-> loc[p].ruleId, field |-> "category",
            op |-> "set", value |-> loc[p].interestCategoryId]}
    /\ uuid' = [uuid EXCEPT ![p] = @ + 1]
    /\ Goto(p, "setup_action_config", loc[p])
    /\ UNCHANGED <<rules, rule_conditions, schedules, schedules_next_date, payees,
                   transactions, Fixed>>

\* await db.insert('rule_actions', { rule, field: 'debt_interest_config', ... });
\* const nextDate = getNextInterestDate(interestPostingDay)
SetupActionConfig(p) ==
    /\ pc[p] = "setup_action_config"
    /\ rule_actions' = rule_actions \cup
          {[id |-> uuidv4(p, uuid[p] + 1), rule |-> loc[p].ruleId,
            field |-> "debt_interest_config", op |-> "set",
            value |-> JSONstringify(loc[p].apr, loc[p].interestScheme,
                                    loc[p].compoundingFrequency)]}
    /\ uuid' = [uuid EXCEPT ![p] = @ + 1]
    /\ Goto(p, "setup_schedule",
            [loc[p] EXCEPT !.nextDate =
                getNextInterestDate(loc[p].interestPostingDay, None)])
    /\ UNCHANGED <<rules, rule_conditions, schedules, schedules_next_date, payees,
                   transactions, Fixed>>

\* await db.insert('schedules', { id: scheduleId, rule: ruleId, ... })
SetupSchedule(p) ==
    /\ pc[p] = "setup_schedule"
    /\ schedules' = schedules \cup
          {[id |-> loc[p].scheduleId, rule |-> loc[p].ruleId, active |-> 1,
            completed |-> 0, posts_transaction |-> 1,
            name |-> "Interest for Account " \o loc[p].accountId]}
    /\ Goto(p, "setup_next_date", loc[p])
    /\ UNCHANGED <<rules, rule_conditions, rule_actions, schedules_next_date, payees,
                   transactions, uuid, Fixed>>

\* await db.insertWithUUID('schedules_next_date', { schedule_id, ... });
\* return scheduleId
SetupNextDate(p) ==
    /\ pc[p] = "setup_next_date"
    /\ schedules_next_date' = schedules_next_date \cup
          {[id |-> uuidv4(p, uuid[p] + 1), schedule_id |-> loc[p].scheduleId,
            local_next_date |-> toDateRepr(loc[p].nextDate),
            base_next_date |-> toDateRepr(loc[p].nextDate)]}
    /\ uuid' = [uuid EXCEPT ![p] = @ + 1]
    /\ Return(p, loc[p].scheduleId, "")
    /\ UNCHANGED <<rules, rule_conditions, rule_actions, schedules, payees,
                   transactions, Fixed>>

----
\* updateInterestSchedule({scheduleId, ruleId, ...}), called by
\* setupInterestSchedule when the lookup found a schedule.

\* const configAction = await db.first('SELECT id FROM rule_actions WHERE ...')
UpdateConfigFind(p) ==
    /\ pc[p] = "update_config_find"
    /\ \E configAction \in first(SelectAction(loc[p].ruleId, "debt_interest_config")) :
          IF ~IsNone(configAction)
          THEN Goto(p, "update_config_write",
                    [loc[p] EXCEPT !.action = Some(The(configAction).id)])
          ELSE Goto(p, "update_category_find", loc[p])
    /\ UNCHANGED <<tables, uuid, Fixed>>

\* await db.update('rule_actions', { id: configAction.id, value: JSON.stringify(...) })
UpdateConfigKeep(p) ==
    /\ pc[p] = "update_config_write"
    /\ Goto(p, "update_category_find", [loc[p] EXCEPT !.action = None])
    /\ UNCHANGED <<tables, uuid, Fixed>>

UpdateConfigWrite(p) ==
    /\ pc[p] = "update_config_write"
    /\ rule_actions' = update(rule_actions, The(loc[p].action),
                              JSONstringify(loc[p].apr, loc[p].interestScheme,
                                            loc[p].compoundingFrequency))
    /\ Goto(p, "update_category_find", [loc[p] EXCEPT !.action = None])
    /\ UNCHANGED <<rules, rule_conditions, schedules, schedules_next_date, payees,
                   transactions, uuid, Fixed>>

\* const categoryAction = await db.first('SELECT id FROM rule_actions WHERE ...');
\* with no such action, on to const nextDate = getNextInterestDate(interestPostingDay)
UpdateCategoryFind(p) ==
    /\ pc[p] = "update_category_find"
    /\ \E categoryAction \in first(SelectAction(loc[p].ruleId, "category")) :
          IF ~IsNone(categoryAction)
          THEN Goto(p, "update_category_write",
                    [loc[p] EXCEPT !.action = Some(The(categoryAction).id)])
          ELSE Goto(p, "update_next_date",
                    [loc[p] EXCEPT !.nextDate =
                        getNextInterestDate(loc[p].interestPostingDay, None)])
    /\ UNCHANGED <<tables, uuid, Fixed>>

\* The category written as one more action of the rule.
UpdateCategoryInsert(p) ==
    /\ pc[p] = "update_category_write"
    /\ rule_actions' = rule_actions \cup
          {[id |-> uuidv4(p, uuid[p] + 1), rule |-> loc[p].ruleId, field |-> "category",
            op |-> "set", value |-> loc[p].interestCategoryId]}
    /\ uuid' = [uuid EXCEPT ![p] = @ + 1]
    /\ Goto(p, "update_next_date",
            [loc[p] EXCEPT !.action = None,
                           !.nextDate =
                               getNextInterestDate(loc[p].interestPostingDay, None)])
    /\ UNCHANGED <<rules, rule_conditions, schedules, schedules_next_date, payees,
                   transactions, Fixed>>

\* await db.update('rule_actions', { id: categoryAction.id, value: interestCategoryId });
\* const nextDate = getNextInterestDate(interestPostingDay)
UpdateCategoryWrite(p) ==
    /\ pc[p] = "update_category_write"
    /\ rule_actions' = update(rule_actions, The(loc[p].action),
                              loc[p].interestCategoryId)
    /\ Goto(p, "update_next_date",
            [loc[p] EXCEPT !.action = None,
                           !.nextDate =
                               getNextInterestDate(loc[p].interestPostingDay, None)])
    /\ UNCHANGED <<rules, rule_conditions, schedules, schedules_next_date, payees,
                   transactions, uuid, Fixed>>

\* await db.runQuery('UPDATE schedules_next_date SET ... WHERE schedule_id = ?');
\* updateInterestSchedule returns, and setupInterestSchedule returns
\* existingSchedule.id
UpdateNextDate(p) ==
    /\ pc[p] = "update_next_date"
    /\ schedules_next_date' =
          {IF r.schedule_id = loc[p].scheduleId
           THEN [r EXCEPT !.local_next_date = toDateRepr(loc[p].nextDate),
                          !.base_next_date = toDateRepr(loc[p].nextDate)]
           ELSE r : r \in schedules_next_date}
    /\ Return(p, The(loc[p].existing).id, "")
    /\ UNCHANGED <<rules, rule_conditions, rule_actions, schedules, payees,
                   transactions, uuid, Fixed>>

----
\* deleteInterestSchedule(accountId)
CallDelete(p) ==
    /\ FreeSlot(p)
    /\ calls < CallBudget
    /\ \E accountId \in CallerAccounts :
          /\ MayStart("delete", accountId)
          /\ pc' = [pc EXCEPT ![p] = "delete_lookup"]
          /\ loc' = [loc EXCEPT ![p] =
                [IdleLoc EXCEPT !.op = "delete", !.accountId = accountId,
                                !.pre = Store]]
    /\ calls' = calls + 1
    /\ UNCHANGED <<tables, accounts, categories, today, uuid, mode, last, lastOp,
                   detected, calc, wizard>>

\* const schedule = await db.first(...); if (schedule) { ... }
DeleteLookup(p) ==
    /\ pc[p] = "delete_lookup"
    /\ \E schedule \in first(SelectSchedule(loc[p].accountId)) :
          IF ~IsNone(schedule)
          THEN Goto(p, "delete_next_date", [loc[p] EXCEPT !.existing = schedule])
          ELSE Return(p, "", "")
    /\ UNCHANGED <<tables, uuid, Fixed>>

\* await db.delete_('schedules_next_date', schedule.id)
DeleteNextDate(p) ==
    /\ pc[p] = "delete_next_date"
    /\ schedules_next_date' = delete_(schedules_next_date, The(loc[p].existing).id)
    /\ Goto(p, "delete_schedule", loc[p])
    /\ UNCHANGED <<rules, rule_conditions, rule_actions, schedules, payees,
                   transactions, uuid, Fixed>>

\* await db.delete_('schedules', schedule.id)
DeleteSchedule(p) ==
    /\ pc[p] = "delete_schedule"
    /\ schedules' = delete_(schedules, The(loc[p].existing).id)
    /\ Goto(p, "delete_conditions", loc[p])
    /\ UNCHANGED <<rules, rule_conditions, rule_actions, schedules_next_date, payees,
                   transactions, uuid, Fixed>>

\* The conditions of every rule deleted.
DeleteConditionsAll(p) ==
    /\ pc[p] = "delete_conditions"
    /\ rule_conditions' = {}
    /\ Goto(p, "delete_actions", loc[p])
    /\ UNCHANGED <<rules, rule_actions, schedules, schedules_next_date, payees,
                   transactions, uuid, Fixed>>

\* await db.delete_('rule_conditions', { rule: schedule.rule })
DeleteConditions(p) ==
    /\ pc[p] = "delete_conditions"
    /\ rule_conditions' = deleteWhereRule(rule_conditions, The(loc[p].existing).rule)
    /\ Goto(p, "delete_actions", loc[p])
    /\ UNCHANGED <<rules, rule_actions, schedules, schedules_next_date, payees,
                   transactions, uuid, Fixed>>

\* await db.delete_('rule_actions', { rule: schedule.rule })
DeleteActions(p) ==
    /\ pc[p] = "delete_actions"
    /\ rule_actions' = deleteWhereRule(rule_actions, The(loc[p].existing).rule)
    /\ Goto(p, "delete_rule", loc[p])
    /\ UNCHANGED <<rules, rule_conditions, schedules, schedules_next_date, payees,
                   transactions, uuid, Fixed>>

\* await db.delete_('rules', schedule.rule)
DeleteRule(p) ==
    /\ pc[p] = "delete_rule"
    /\ rules' = delete_(rules, The(loc[p].existing).rule)
    /\ Return(p, "", "")
    /\ UNCHANGED <<rule_conditions, rule_actions, schedules, schedules_next_date,
                   payees, transactions, uuid, Fixed>>

----
\* postInterestTransaction(params)
CallPost(p) ==
    /\ FreeSlot(p)
    /\ calls < CallBudget
    /\ \E accountId \in CallerAccounts : \E input \in CallerPostInputs :
          /\ MayStart("post", accountId)
          /\ pc' = [pc EXCEPT ![p] = "post_balance"]
          /\ loc' = [loc EXCEPT ![p] =
                [IdleLoc EXCEPT !.op = "post", !.accountId = accountId,
                    !.apr = input.apr, !.interestScheme = input.interestScheme,
                    !.compoundingFrequency = input.compoundingFrequency,
                    !.interestCategoryId = input.interestCategoryId,
                    !.date = input.date, !.pre = Store]]
    /\ calls' = calls + 1
    /\ UNCHANGED <<tables, accounts, categories, today, uuid, mode, last, lastOp,
                   detected, calc, wizard>>

\* const balanceResult = await db.first('SELECT sum(amount) ...');
\* const interestAmount = calculateInterest(...);
\* if (interestAmount === 0) throw new Error('No interest to post ...')
NO_INTEREST == "No interest to post (balance is zero or APR is zero)"

PostBalance(p) ==
    /\ pc[p] = "post_balance"
    /\ LET balance == SelectBalance(loc[p].accountId)
           interestAmount == calculateInterest(balance, loc[p].apr,
                                 loc[p].interestScheme, loc[p].compoundingFrequency)
       IN  IF interestAmount = 0
           THEN Return(p, "", NO_INTEREST)
           ELSE Goto(p, "post_payee_find",
                     [loc[p] EXCEPT !.interestAmount = interestAmount])
    /\ UNCHANGED <<tables, uuid, Fixed>>

\* const interestPayee = await db.first('SELECT id FROM payees WHERE name = ?')
PostPayeeFind(p) ==
    /\ pc[p] = "post_payee_find"
    /\ \E interestPayee \in first(SelectInterestPayee) :
          IF ~IsNone(interestPayee)
          THEN Goto(p, "post_insert",
                    [loc[p] EXCEPT !.interestPayeeId = The(interestPayee).id])
          ELSE Goto(p, "post_payee_insert", loc[p])
    /\ UNCHANGED <<tables, uuid, Fixed>>

\* interestPayeeId = await db.insertPayee({ name: 'Interest Charge' })
PostPayeeInsert(p) ==
    /\ pc[p] = "post_payee_insert"
    /\ payees' = payees \cup {[id |-> uuidv4(p, uuid[p] + 1), name |-> INTEREST_CHARGE]}
    /\ uuid' = [uuid EXCEPT ![p] = @ + 1]
    /\ Goto(p, "post_insert", [loc[p] EXCEPT !.interestPayeeId = uuidv4(p, uuid[p] + 1)])
    /\ UNCHANGED <<rules, rule_conditions, rule_actions, schedules,
                   schedules_next_date, transactions, Fixed>>

\* `Interest charge (${apr}% APR, ${interestScheme})`
InterestNote(apr, interestScheme) ==
    <<"I","n","t","e","r","e","s","t"," ","c","h","a","r","g","e"," ","(">>
        \o NumberChars(apr) \o <<"%"," ","A","P","R",","," ">>
        \o Chars(interestScheme) \o <<")">>

\* const transactionId = await db.insertTransaction({...}); return transactionId
PostedAmountUnsigned(interestAmount) == interestAmount

PostedAmount(interestAmount) == -interestAmount

PostInsert(p) ==
    /\ pc[p] = "post_insert"
    /\ transactions' = transactions \cup
          {[id |-> uuidv4(p, uuid[p] + 1), acct |-> loc[p].accountId,
            amount |-> PostedAmount(loc[p].interestAmount),
            payee |-> loc[p].interestPayeeId,
            category |-> loc[p].interestCategoryId,
            date |-> IF IsNone(loc[p].date) THEN currentDay ELSE The(loc[p].date),
            cleared |-> TRUE,
            notes |-> InterestNote(loc[p].apr, loc[p].interestScheme),
            tombstone |-> 0]}
    /\ uuid' = [uuid EXCEPT ![p] = @ + 1]
    /\ Return(p, uuidv4(p, uuid[p] + 1), "")
    /\ UNCHANGED <<rules, rule_conditions, rule_actions, schedules,
                   schedules_next_date, payees, Fixed>>

----
\* detectDebtAccounts and its helpers.

\* A number that need not be whole: num / den, den > 0.
Rational(num, den) == [num |-> num, den |-> den]

Pad2(n) == IF n < 10 THEN "0" \o ToString(n) ELSE ToString(n)

Pad3(n) == IF n < 100 THEN "0" \o Pad2(n) ELSE ToString(n)

RECURSIVE Grouped(_)
Grouped(n) ==
    IF n < 1000 THEN ToString(n)
    ELSE Grouped(n \div 1000) \o "," \o Pad3(n % 1000)

\* Intl.NumberFormat('en-US', {style: 'currency', currency: 'USD'}) of
\* Math.abs(amountInCents) / 100: two decimals, thousands grouped.
formatCurrency(amountInCents) ==
    LET cents == RoundDiv(Abs(amountInCents.num), amountInCents.den)
    IN  "$" \o Grouped(cents \div 100) \o "." \o Pad2(cents % 100)

\* estimatedAPR.toFixed(2), of the rate whose hundredths are h.
toFixed2(h) == ToString(h \div 100) \o "." \o Pad2(h % 100)

\* The number of the day, counted from 0001-01-01.
RECURSIVE DaysBeforeMonth(_, _)
DaysBeforeMonth(y, m) ==
    IF m = 1 THEN 0
    ELSE DaysBeforeMonth(y, m - 1) + DaysInMonth(y, m - 1)

getTime(day) ==
    LET y == day.y - 1
    IN  365 * y + y \div 4 - y \div 100 + y \div 400
            + DaysBeforeMonth(day.y, day.m) + day.d

\* Math.ceil(Math.abs(d1.getTime() - d2.getTime()) / (1000 * 60 * 60 * 24))
daysBetween(date1, date2) == Abs(getTime(date1) - getTime(date2))

\* ORDER BY date DESC; rows of one date come in no order the query fixes.
RECURSIVE OrderByDateDesc(_)
OrderByDateDesc(rows) ==
    IF rows = {} THEN <<>>
    ELSE LET r == CHOOSE x \in rows :
                      \A z \in rows : toDateRepr(z.date) <= toDateRepr(x.date)
         IN  <<r>> \o OrderByDateDesc(rows \ {r})

Limit(rows, n) == SubSeq(rows, 1, Min(n, Len(rows)))

RECURSIVE SumOver(_)
SumOver(numbers) ==
    IF numbers = <<>> THEN 0 ELSE Head(numbers) + SumOver(Tail(numbers))

\* SELECT * FROM accounts WHERE is_debt = 0 AND closed = 0 AND tombstone = 0
IsCandidateAccount(account) ==
    account.is_debt = 0 /\ account.closed = 0 /\ account.tombstone = 0

SelectAccounts == SelectSeq(accounts, IsCandidateAccount)

\* SELECT SUM(amount) as balance FROM transactions WHERE acct = ? AND
\* tombstone = 0; result?.balance || 0
getAccountBalanceAll(accountId) ==
    SumAmounts({t \in transactions : t.acct = accountId})

getAccountBalance(accountId) ==
    SumAmounts({t \in transactions : t.acct = accountId /\ t.tombstone = 0})

\* SELECT date, amount FROM transactions WHERE acct = ? AND amount > 0 AND
\* tombstone = 0 ORDER BY date DESC LIMIT 12
SelectPaymentsAll(accountId) ==
    Limit(OrderByDateDesc({t \in transactions :
              t.acct = accountId /\ t.amount > 0}), 12)

SelectPayments(accountId) ==
    Limit(OrderByDateDesc({t \in transactions :
              t.acct = accountId /\ t.amount > 0 /\ t.tombstone = 0}), 12)

\* Every pattern taken as consistent.
MoreConsistentThanNone(consistency, fifths) == consistency.den > 0

\* consistency = 1 - Math.min(stdDev / avgAmount, 1), kept as the square of
\* stdDev / avgAmount: consistency > f/5 exactly when 25 * num < (5-f)^2 * den.
MoreConsistentThan(consistency, fifths) ==
    25 * consistency.num < (5 - fifths) * (5 - fifths) * consistency.den

analyzePaymentPatterns(accountId) ==
    LET payments == SelectPayments(accountId)
        n == Len(payments)
        gaps == [i \in 1..(n - 1) |->
                    daysBetween(payments[i].date, payments[i + 1].date)] \o <<>>
        gapSum == SumOver(gaps)
        frequency == IF gapSum < 18 * Len(gaps) THEN "biweekly"
                     ELSE IF gapSum < 35 * Len(gaps) THEN "monthly"
                     ELSE "irregular"
        amounts == [i \in 1..n |-> payments[i].amount] \o <<>>
        total == SumOver(amounts)
        squares == SumOver([i \in 1..n |-> amounts[i] * amounts[i]] \o <<>>)
    IN  IF n < 2
        THEN [accountId |-> accountId, averagePayment |-> Rational(0, 1),
              paymentFrequency |-> "irregular", consistency |-> Rational(1, 1),
              paymentCount |-> n]
        ELSE [accountId |-> accountId, averagePayment |-> Rational(total, n),
              paymentFrequency |-> frequency,
              consistency |-> IF total > 0
                              THEN Rational(n * squares - total * total,
                                            total * total)
                              ELSE Rational(1, 1),
              paymentCount |-> n]

interestKeywords ==
    <<<<"i","n","t","e","r","e","s","t">>,
      <<"f","i","n","a","n","c","e"," ","c","h","a","r","g","e">>,
      <<"a","p","r">>,
      <<"i","n","t","e","r","e","s","t"," ","c","h","a","r","g","e">>,
      <<"m","o","n","t","h","l","y"," ","i","n","t","e","r","e","s","t">>>>

Like(text, keywords) ==
    LET lower == toLowerCase(text)
    IN  \E i \in DOMAIN keywords : includes(lower, keywords[i])

\* SELECT t.amount, t.date FROM transactions t LEFT JOIN payees p ON
\* t.payee = p.id WHERE t.acct = ? AND t.tombstone = 0 AND t.amount < 0 AND
\* (LOWER(p.name) LIKE ... OR LOWER(t.notes) LIKE ...) ORDER BY t.date DESC
\* LIMIT 12
SelectInterestTransactions(accountId) ==
    Limit(OrderByDateDesc({t \in transactions :
              /\ t.acct = accountId
              /\ t.tombstone = 0
              /\ t.amount < 0
              /\ \/ \E r \in payees :
                       r.id = t.payee /\ Like(r.name, interestKeywords)
                 \/ Like(t.notes, interestKeywords)}), 12)

\* estimatedAPR is in hundredths of a percent, as apr is.
detectInterestTransactions(accountId) ==
    LET interestTransactions == SelectInterestTransactions(accountId)
        n == Len(interestTransactions)
        sum == Abs(SumOver([i \in 1..n |-> interestTransactions[i].amount]
                           \o <<>>))
        balance == Abs(getAccountBalance(accountId))
    IN  IF n = 0
        THEN [hasInterest |-> FALSE, count |-> 0, estimatedAPR |-> None]
        ELSE [hasInterest |-> TRUE, count |-> n,
              estimatedAPR |->
                 IF n >= 3 /\ balance > 0 /\ sum > 0
                       /\ 12000 * sum >= n * balance /\ 24 * sum <= n * balance
                 THEN Some(RoundDiv(120000 * sum, n * balance))
                 ELSE None]

debtCategoryKeywords ==
    <<<<"d","e","b","t">>,
      <<"l","o","a","n">>,
      <<"m","o","r","t","g","a","g","e">>,
      <<"c","r","e","d","i","t"," ","c","a","r","d">>,
      <<"i","n","t","e","r","e","s","t">>>>

\* SELECT COUNT(DISTINCT t.id) as count FROM transactions t JOIN categories c
\* ON t.category = c.id WHERE t.acct = ? AND t.tombstone = 0 AND
\* c.tombstone = 0 AND (LOWER(c.name) LIKE ...); (result?.count || 0) > 0
checkDebtCategories(accountId) ==
    \E t \in transactions : \E c \in categories :
        /\ t.acct = accountId
        /\ t.tombstone = 0
        /\ c.id = t.category
        /\ c.tombstone = 0
        /\ Like(c.name, debtCategoryKeywords)

\* The groups tried from the last to the first.
suggestDebtTypeReversed(accountName, balance, pattern) ==
    LET nameLower == toLowerCase(accountName)
    IN  IF \/ includes(nameLower, <<"l","i","n","e"," ","o","f"," ","c","r","e","d","i","t">>)
           \/ includes(nameLower, <<"l","o","c">>)
           \/ includes(nameLower, <<"h","e","l","o","c">>)
        THEN "line_of_credit"
        ELSE IF \/ includes(nameLower, <<"s","t","u","d","e","n","t">>)
                \/ includes(nameLower, <<"e","d","u","c","a","t","i","o","n">>)
                \/ includes(nameLower, <<"t","u","i","t","i","o","n">>)
        THEN "student_loan"
        ELSE IF \/ includes(nameLower, <<"a","u","t","o">>)
                \/ includes(nameLower, <<"c","a","r">>)
                \/ includes(nameLower, <<"v","e","h","i","c","l","e">>)
        THEN "auto_loan"
        ELSE IF \/ includes(nameLower, <<"m","o","r","t","g","a","g","e">>)
                \/ includes(nameLower, <<"h","o","m","e"," ","l","o","a","n">>)
                \/ (balance < -10000000 /\ pattern.paymentFrequency = "monthly")
        THEN "mortgage"
        ELSE IF \/ includes(nameLower, <<"c","r","e","d","i","t"," ","c","a","r","d">>)
                \/ includes(nameLower, <<"v","i","s","a">>)
                \/ includes(nameLower, <<"m","a","s","t","e","r","c","a","r","d">>)
                \/ includes(nameLower, <<"d","i","s","c","o","v","e","r">>)
                \/ includes(nameLower, <<"a","m","e","x">>)
                \/ includes(nameLower, <<"a","m","e","r","i","c","a","n"," ","e","x","p","r","e","s","s">>)
        THEN "credit_card"
        ELSE "personal_loan"

\* function suggestDebtType(accountName, balance, pattern): DebtType
suggestDebtType(accountName, balance, pattern) ==
    LET nameLower == toLowerCase(accountName)
    IN  IF \/ includes(nameLower, <<"c","r","e","d","i","t"," ","c","a","r","d">>)
           \/ includes(nameLower, <<"v","i","s","a">>)
           \/ includes(nameLower, <<"m","a","s","t","e","r","c","a","r","d">>)
           \/ includes(nameLower, <<"d","i","s","c","o","v","e","r">>)
           \/ includes(nameLower, <<"a","m","e","x">>)
           \/ includes(nameLower, <<"a","m","e","r","i","c","a","n"," ","e","x","p","r","e","s","s">>)
        THEN "credit_card"
        ELSE IF \/ includes(nameLower, <<"m","o","r","t","g","a","g","e">>)
                \/ includes(nameLower, <<"h","o","m","e"," ","l","o","a","n">>)
                \/ (balance < -10000000 /\ pattern.paymentFrequency = "monthly")
        THEN "mortgage"
        ELSE IF \/ includes(nameLower, <<"a","u","t","o">>)
                \/ includes(nameLower, <<"c","a","r">>)
                \/ includes(nameLower, <<"v","e","h","i","c","l","e">>)
        THEN "auto_loan"
        ELSE IF \/ includes(nameLower, <<"s","t","u","d","e","n","t">>)
                \/ includes(nameLower, <<"e","d","u","c","a","t","i","o","n">>)
                \/ includes(nameLower, <<"t","u","i","t","i","o","n">>)
        THEN "student_loan"
        ELSE IF \/ includes(nameLower, <<"l","i","n","e"," ","o","f"," ","c","r","e","d","i","t">>)
                \/ includes(nameLower, <<"l","o","c">>)
                \/ includes(nameLower, <<"h","e","l","o","c">>)
        THEN "line_of_credit"
        ELSE "personal_loan"

debtKeywords ==
    <<<<"c","r","e","d","i","t"," ","c","a","r","d">>,
      <<"v","i","s","a">>,
      <<"m","a","s","t","e","r","c","a","r","d">>,
      <<"d","i","s","c","o","v","e","r">>,
      <<"a","m","e","x">>,
      <<"a","m","e","r","i","c","a","n"," ","e","x","p","r","e","s","s">>,
      <<"l","o","a","n">>,
      <<"m","o","r","t","g","a","g","e">>,
      <<"s","t","u","d","e","n","t">>,
      <<"a","u","t","o">>,
      <<"c","a","r"," ","p","a","y","m","e","n","t">>,
      <<"d","e","b","t">>,
      <<"l","i","n","e"," ","o","f"," ","c","r","e","d","i","t">>,
      <<"l","o","c">>,
      <<"h","e","l","o","c">>>>

\* export async function detectDebtAccounts(): Promise<DebtCandidate[]>
CallDetect(p) ==
    /\ FreeSlot(p)
    /\ calls < CallBudget
    /\ MayStart("detect", "")
    /\ pc' = [pc EXCEPT ![p] = "detect_accounts"]
    /\ loc' = [loc EXCEPT ![p] = [IdleLoc EXCEPT !.op = "detect", !.pre = Store]]
    /\ calls' = calls + 1
    /\ UNCHANGED <<tables, accounts, categories, today, uuid, mode, last, lastOp,
                   detected, calc, wizard>>

\* const candidates = []; const accounts = await db.all(...)
DetectAccountsRecording(p) ==
    /\ pc[p] = "detect_accounts"
    /\ payees' = payees \cup {[id |-> uuidv4(p, uuid[p] + 1),
                                name |-> <<"S","c","a","n">>]}
    /\ uuid' = [uuid EXCEPT ![p] = @ + 1]
    /\ Goto(p, "detect_loop",
            [loc[p] EXCEPT !.accounts = SelectAccounts, !.candidates = <<>>])
    /\ UNCHANGED <<rules, rule_conditions, rule_actions, schedules,
                   schedules_next_date, transactions, Fixed>>

DetectAccounts(p) ==
    /\ pc[p] = "detect_accounts"
    /\ Goto(p, "detect_loop",
            [loc[p] EXCEPT !.accounts = SelectAccounts, !.candidates = <<>>])
    /\ UNCHANGED <<tables, uuid, Fixed>>

\* Two tiers only.
ConfidenceLevelCoarse(score) == IF score >= 70 THEN "high" ELSE "low"

\* const confidence: ConfidenceLevel =
\*   score >= 70 ? 'high' : score >= 50 ? 'medium' : 'low'
ConfidenceLevel(score) ==
    IF score >= 70 THEN "high" ELSE IF score >= 50 THEN "medium" ELSE "low"

\* One iteration of for (const account of accounts).
DetectAccount(p) ==
    /\ pc[p] = "detect_loop"
    /\ loc[p].accounts # <<>>
    /\ LET account == Head(loc[p].accounts)
           balance == getAccountBalance(account.id)
           balanceScore == IF balance < -100000 THEN 30
                           ELSE IF balance < -10000 THEN 15 ELSE 0
           balanceReasons ==
               IF balance < -100000
               THEN <<"Significant negative balance: "
                          \o formatCurrency(Rational(balance, 1))>>
               ELSE IF balance < -10000
               THEN <<"Negative balance: " \o formatCurrency(Rational(balance, 1))>>
               ELSE <<>>
           hasDebtKeyword == Like(account.name, debtKeywords)
           nameScore == IF hasDebtKeyword THEN 25 ELSE 0
           nameReasons ==
               IF hasDebtKeyword
               THEN <<"Account name suggests debt: \"" \o Join(account.name) \o "\"">>
               ELSE <<>>
           offbudgetScore == IF account.offbudget = 1
                             THEN 10 + (IF hasDebtKeyword THEN 15 ELSE 0)
                             ELSE 0
           offbudgetReasons ==
               IF account.offbudget = 1
               THEN <<"Currently off-budget">>
                        \o (IF hasDebtKeyword
                            THEN <<"Off-budget account with debt-related name">>
                            ELSE <<>>)
               ELSE <<>>
           pattern == analyzePaymentPatterns(account.id)
           regular == /\ pattern.paymentCount >= 3
                      /\ pattern.paymentFrequency = "monthly"
                      /\ MoreConsistentThan(pattern.consistency, 4)
           semiRegular == /\ pattern.paymentCount >= 3
                          /\ ~regular
                          /\ pattern.paymentFrequency = "monthly"
                          /\ MoreConsistentThan(pattern.consistency, 3)
           patternScore == IF regular THEN 20 ELSE IF semiRegular THEN 10 ELSE 0
           patternReasons ==
               IF regular
               THEN <<"Regular monthly payments (~"
                          \o formatCurrency(pattern.averagePayment) \o ")">>
               ELSE IF semiRegular
               THEN <<"Semi-regular payments ("
                          \o ToString(pattern.paymentCount) \o " found)">>
               ELSE <<>>
           interestInfo == detectInterestTransactions(account.id)
           interestScore == IF interestInfo.hasInterest THEN 25 ELSE 0
           interestReasons ==
               IF interestInfo.hasInterest
               THEN <<"Interest charges detected ("
                          \o ToString(interestInfo.count) \o " transactions)">>
                        \o (IF ~IsNone(interestInfo.estimatedAPR)
                               /\ The(interestInfo.estimatedAPR) # 0
                            THEN <<"Estimated APR: "
                                     \o toFixed2(The(interestInfo.estimatedAPR))
                                     \o "%">>
                            ELSE <<>>)
               ELSE <<>>
           hasDebtCategory == checkDebtCategories(account.id)
           categoryScore == IF hasDebtCategory THEN 15 ELSE 0
           categoryReasons ==
               IF hasDebtCategory
               THEN <<"Transactions categorized to debt-related categories">>
               ELSE <<>>
           score == balanceScore + nameScore + offbudgetScore + patternScore
                        + interestScore + categoryScore
           reasons == balanceReasons \o nameReasons \o offbudgetReasons
                          \o patternReasons \o interestReasons \o categoryReasons
           suggestedType == suggestDebtType(account.name, balance, pattern)
           confidence == ConfidenceLevel(score)
           candidate == [accountId |-> account.id, accountName |-> account.name,
                         balance |-> balance,
                         currentlyOffBudget |-> account.offbudget = 1,
                         confidence |-> confidence, score |-> score,
                         reasons |-> reasons, suggestedDebtType |-> suggestedType,
                         detectedAPR |-> interestInfo.estimatedAPR]
       IN  IF balance >= 0
           THEN Goto(p, "detect_loop",
                     [loc[p] EXCEPT !.accounts = Tail(loc[p].accounts)])
           ELSE IF score >= 40
           THEN Goto(p, "detect_loop",
                     [loc[p] EXCEPT !.accounts = Tail(loc[p].accounts),
                                    !.candidates = Append(@, candidate)])
           ELSE Goto(p, "detect_loop",
                     [loc[p] EXCEPT !.accounts = Tail(loc[p].accounts)])
    /\ UNCHANGED <<tables, uuid, Fixed>>

\* candidates.sort((a, b) => b.score - a.score): by descending score, and
\* Array.prototype.sort keeps the order of elements that compare equal.
sortNot(candidates) == candidates

RECURSIVE sort(_)
sort(candidates) ==
    IF candidates = <<>> THEN <<>>
    ELSE LET c == candidates[Len(candidates)]
             sorted == sort(SubSeq(candidates, 1, Len(candidates) - 1))
             k == Cardinality({i \in DOMAIN sorted : sorted[i].score >= c.score})
         IN  SubSeq(sorted, 1, k) \o <<c>> \o SubSeq(sorted, k + 1, Len(sorted))

\* return candidates.sort(...)
DetectReturn(p) ==
    /\ pc[p] = "detect_loop"
    /\ loc[p].accounts = <<>>
    /\ detected' = sort(loc[p].candidates)
    /\ Return(p, "", "")
    /\ UNCHANGED <<tables, uuid, accounts, categories, today, mode, calls, calc, wizard>>

----
\* The ledgers the calls start from.
Transaction(id, acct, amount, tombstone) ==
    [id |-> id, acct |-> acct, amount |-> amount, payee |-> "", category |-> "",
     date |-> [y |-> 2023, m |-> 11, d |-> 5], cleared |-> TRUE, notes |-> <<>>,
     tombstone |-> tombstone]

Account(id, name, offbudget, closed, tombstone, is_debt) ==
    [id |-> id, name |-> name, offbudget |-> offbudget, closed |-> closed,
     tombstone |-> tombstone, is_debt |-> is_debt]

StartLedgers ==
    {[today |-> [y |-> 2024, m |-> 1, d |-> 31],
      transactions |-> {Transaction("t1", "a1", -250000, 0),
                        Transaction("t2", "a2", -100000, 1)}],
     [today |-> [y |-> 2024, m |-> 12, d |-> 15],
      transactions |-> {Transaction("t1", "a1", 250000, 0),
                        Transaction("t2", "a1", -1000, 1),
                        Transaction("t3", "a2", -3, 0)}]}

StartAccounts ==
    <<Account("a1", <<"V","i","s","a">>, 0, 0, 0, 1),
      Account("a2", <<"L","o","a","n">>, 1, 0, 0, 0)>>

StartCategories ==
    {[id |-> "c1", name |-> <<"I","n","t","e","r","e","s","t">>, tombstone |-> 0],
     [id |-> "c2", name |-> <<"F","e","e","s">>, tombstone |-> 0],
     [id |-> "c3", name |-> <<"D","e","b","t">>, tombstone |-> 1]}

\* DebtMigrationWizard before it is opened: the useState initial values (step
\* 'welcome', backupCreated false, applyStatus 'idle'), no handler running, the
\* two local preferences unset, the schema not migrated, no account converted.
\* exporting and detecting count the export-budget and debt-detect-accounts
\* requests in flight; apply is the position of handleApply with the
\* selectedAccounts and accountConfigs its closure holds; before is the
\* server's state when handleApply was started last.
NoWizard ==
    [open |-> FALSE, step |-> "welcome",
     backupCreated |-> FALSE, backupLoading |-> FALSE, backupError |-> None,
     candidates |-> <<>>, selectedAccounts |-> <<>>, accountConfigs |-> {},
     loading |-> FALSE,
     applyProgress |-> 0, applyStatus |-> "idle", errorMessage |-> None,
     debtTrackingEnabled |-> FALSE, debtTrackingDismissed |-> FALSE,
     exporting |-> 0, detecting |-> 0,
     apply |-> [pc |-> "idle", selectedList |-> <<>>, configs |-> {}, i |-> 0],
     migrated |-> FALSE, is_debt |-> {},
     before |-> [migrated |-> FALSE, is_debt |-> {}]]

NoCalc ==
    [stage |-> "", balance |-> 0, apr |-> 0, interestScheme |-> "",
     interest |-> None, interestCharged |-> 0, principal |-> 0, rate |-> None,
     interestPostingDay |-> None, fromDate |-> None, nextDate |-> NoDay]

InitCalls ==
    /\ uuid = [p \in Slots |-> 0]
    /\ pc = [p \in Slots |-> "idle"]
    /\ loc = [p \in Slots |-> IdleLoc]
    /\ last = NoCall
    /\ lastOp = [a \in AccountIds |-> ""]
    /\ calls = 0
    /\ detected = <<>>
    /\ calc = NoCalc
    /\ wizard = NoWizard

InitStorage ==
    /\ rules = {}
    /\ rule_conditions = {}
    /\ rule_actions = {}
    /\ schedules = {}
    /\ schedules_next_date = {}
    /\ payees = {}
    /\ \E l \in StartLedgers : today = l.today /\ transactions = l.transactions
    /\ accounts = StartAccounts
    /\ categories = StartCategories

\* The engine's calls made one after the other, on a storage that holds no
\* schedule yet.
Init ==
    /\ mode = "seq"
    /\ InitStorage
    /\ InitCalls

Step(p) ==
    \/ CallSetup(p)
    \/ SetupLookup(p)
    \/ SetupPayeeFind(p)
    \/ SetupPayeeInsert(p)
    \/ SetupRule(p)
    \/ SetupCondition(p)
    \/ SetupActionPayee(p)
    \/ SetupActionCategory(p)
    \/ SetupActionConfig(p)
    \/ SetupSchedule(p)
    \/ SetupNextDate(p)
    \/ UpdateConfigFind(p)
    \/ UpdateConfigWrite(p)
    \/ UpdateCategoryFind(p)
    \/ UpdateCategoryWrite(p)
    \/ UpdateNextDate(p)
    \/ CallDelete(p)
    \/ DeleteLookup(p)
    \/ DeleteNextDate(p)
    \/ DeleteSchedule(p)
    \/ DeleteConditions(p)
    \/ DeleteActions(p)
    \/ DeleteRule(p)
    \/ CallPost(p)
    \/ PostBalance(p)
    \/ PostPayeeFind(p)
    \/ PostPayeeInsert(p)
    \/ PostInsert(p)
    \/ CallDetect(p)
    \/ DetectAccounts(p)
    \/ DetectAccount(p)
    \/ DetectReturn(p)

Next == \E p \in Slots : Step(p)

Spec == Init /\ [][Next]_vars

\* A storage failure: the lookup, insert, update or delete that a schedule
\* mutation is waiting on throws without having changed anything, and the
\* error leaves setupInterestSchedule or deleteInterestSchedule, which catch
\* nothing.
STORAGE_FAILURE == "storage failure"

StorageFailure(p) ==
    /\ pc[p] # "idle"
    /\ loc[p].op \in ScheduleOps
    /\ Return(p, "", STORAGE_FAILURE)
    /\ UNCHANGED <<tables, uuid, Fixed>>

\* The schedule mutations made one after the other on a storage that can fail
\* at any step.
NextFailure ==
    \E p \in Slots :
        \/ CallSetup(p)
        \/ SetupLookup(p)
        \/ SetupPayeeFind(p)
        \/ SetupPayeeInsert(p)
        \/ SetupRule(p)
        \/ SetupCondition(p)
        \/ SetupActionPayee(p)
        \/ SetupActionCategory(p)
        \/ SetupActionConfig(p)
        \/ SetupSchedule(p)
        \/ SetupNextDate(p)
        \/ UpdateConfigFind(p)
        \/ UpdateConfigWrite(p)
        \/ UpdateCategoryFind(p)
        \/ UpdateCategoryWrite(p)
        \/ UpdateNextDate(p)
        \/ CallDelete(p)
        \/ DeleteLookup(p)
        \/ DeleteNextDate(p)
        \/ DeleteSchedule(p)
        \/ DeleteConditions(p)
        \/ DeleteActions(p)
        \/ DeleteRule(p)
        \/ StorageFailure(p)

InitFailure ==
    /\ mode = "fail"
    /\ InitStorage
    /\ InitCalls

SpecFailure == InitFailure /\ [][NextFailure]_vars

\* The same calls on a storage that also holds schedules the engine did not
\* create: a recurring schedule of the user on account a1, whose rule has a
\* payee condition besides the account match, and a schedule on account a2
\* whose rule is staged.
ForeignStore ==
    [rules |-> {[id |-> "r-user", stage |-> NULL],
                [id |-> "r-staged", stage |-> "post"]},
     rule_conditions |->
        {[id |-> "k1", rule |-> "r-user", field |-> "acct", op |-> "is",
          value |-> "a1"],
         [id |-> "k2", rule |-> "r-user", field |-> "payee", op |-> "is",
          value |-> "p-landlord"],
         [id |-> "k3", rule |-> "r-staged", field |-> "acct", op |-> "is",
          value |-> "a2"]},
     rule_actions |->
        {[id |-> "x1", rule |-> "r-user", field |-> "category", op |-> "set",
          value |-> "c-rent"]},
     schedules |->
        {[id |-> "s-user", rule |-> "r-user", active |-> 1, completed |-> 0,
          posts_transaction |-> 0, name |-> "Rent"],
         [id |-> "s-staged", rule |-> "r-staged", active |-> 1, completed |-> 0,
          posts_transaction |-> 0, name |-> "Staged"]},
     schedules_next_date |->
        {[id |-> "n-user", schedule_id |-> "s-user", local_next_date |-> 20240201,
          base_next_date |-> 20240201],
         [id |-> "n-staged", schedule_id |-> "s-staged",
          local_next_date |-> 20240201, base_next_date |-> 20240201]}]

InitForeign ==
    /\ mode = "seq"
    /\ rules = ForeignStore.rules
    /\ rule_conditions = ForeignStore.rule_conditions
    /\ rule_actions = ForeignStore.rule_actions
    /\ schedules = ForeignStore.schedules
    /\ schedules_next_date = ForeignStore.schedules_next_date
    /\ payees = {}
    /\ \E l \in StartLedgers : today = l.today /\ transactions = l.transactions
    /\ accounts = StartAccounts
    /\ categories = StartCategories
    /\ InitCalls

SpecForeign == InitForeign /\ [][Next]_vars

\* The same calls made concurrently: the caller either serializes the schedule
\* mutations of each account or does not.
InitConcurrent ==
    /\ mode \in {"acct", "race"}
    /\ InitStorage
    /\ InitCalls

SpecConcurrent == InitConcurrent /\ [][Next]_vars

\* The ledgers detection is examined on: three accounts, in any order, each
\* with the transactions of one profile.
Row(k, amount, m, payee, category, notes, tombstone) ==
    [k |-> k, amount |-> amount, date |-> [y |-> 2023, m |-> m, d |-> 5],
     payee |-> payee, category |-> category, notes |-> notes,
     tombstone |-> tombstone]

Profile(name, offbudget, closed, tombstone, is_debt, rows) ==
    [name |-> name, offbudget |-> offbudget, closed |-> closed,
     tombstone |-> tombstone, is_debt |-> is_debt, rows |-> rows]

MONTHLY_INTEREST == <<"M","o","n","t","h","l","y"," ","I","n","t","e","r","e","s","t">>

Profiles ==
    {Profile(<<"V","i","s","a"," ","C","a","r","d">>, 0, 0, 0, 0,
             {Row(1, -250000, 6, "", "", <<>>, 0)}),
     Profile(<<"O","l","d"," ","c","a","r"," ","l","o","a","n">>, 0, 0, 0, 0,
             {Row(1, -250000, 6, "", "", <<>>, 0)}),
     Profile(<<"S","t","o","r","e"," ","A","c","c","o","u","n","t">>, 1, 0, 0, 0,
             {Row(1, -250000, 6, "", "", <<>>, 0),
              Row(2, 1000, 9, "", "", <<>>, 0),
              Row(3, 1000, 10, "", "", <<>>, 0),
              Row(4, 1100, 11, "", "", <<>>, 0),
              Row(5, -300, 9, "p-fin", "c1", <<>>, 0),
              Row(6, -300, 10, "", "", MONTHLY_INTEREST, 0),
              Row(7, -300, 11, "", "", MONTHLY_INTEREST, 0)}),
     Profile(<<"S","t","o","r","e"," ","A","c","c","o","u","n","t">>, 1, 0, 0, 0,
             {Row(1, -250000, 6, "", "", <<>>, 0),
              Row(2, 1000, 9, "", "", <<>>, 0),
              Row(3, 1000, 10, "", "", <<>>, 0),
              Row(4, 1100, 11, "", "", <<>>, 0),
              Row(5, -300, 9, "p-fin", "c1", <<>>, 0),
              Row(6, -300, 10, "", "", MONTHLY_INTEREST, 0),
              Row(7, -300, 11, "", "", MONTHLY_INTEREST, 0),
              Row(8, -400000, 7, "", "", <<>>, 1),
              Row(9, 5000, 8, "", "", <<>>, 1),
              Row(10, -900, 12, "p-fin", "c1", MONTHLY_INTEREST, 1)}),
     Profile(<<"C","h","e","c","k","i","n","g"," ","(","L","O","C",")">>, 0, 0, 0, 0,
             {Row(1, 5000, 6, "", "", <<>>, 0),
              Row(2, -900000, 7, "", "", <<>>, 1)}),
     Profile(<<"S","t","u","d","e","n","t"," ","L","o","a","n">>, 0, 1, 0, 0,
             {Row(1, -250000, 6, "", "", <<>>, 0)}),
     Profile(<<"W","a","l","l","e","t">>, 1, 0, 0, 0,
             {Row(1, -20000, 6, "", "c3", <<>>, 0)})}

DetectPayees ==
    {[id |-> "p-fin", name |-> <<"B","a","n","k"," ","F","i","n","a","n","c","e"," ","C","h","a","r","g","e">>]}

ProfileAccount(i, profile) ==
    Account("a" \o ToString(i), profile.name, profile.offbudget, profile.closed,
            profile.tombstone, profile.is_debt)

ProfileTransactions(i, profile) ==
    {[id |-> "t" \o ToString(i) \o "-" \o ToString(r.k),
      acct |-> "a" \o ToString(i), amount |-> r.amount, payee |-> r.payee,
      category |-> r.category, date |-> r.date, cleared |-> TRUE,
      notes |-> r.notes, tombstone |-> r.tombstone] : r \in profile.rows}

InitDetect ==
    /\ mode = "detect"
    /\ rules = {}
    /\ rule_conditions = {}
    /\ rule_actions = {}
    /\ schedules = {}
    /\ schedules_next_date = {}
    /\ payees = DetectPayees
    /\ today = [y |-> 2024, m |-> 1, d |-> 31]
    /\ \E x \in Profiles : \E y \in Profiles \ {x} : \E z \in Profiles \ {x, y} :
          /\ accounts = <<ProfileAccount(1, x), ProfileAccount(2, y),
                          ProfileAccount(3, z)>>
          /\ transactions = ProfileTransactions(1, x) \cup ProfileTransactions(2, y)
                                \cup ProfileTransactions(3, z)
    /\ categories = StartCategories
    /\ InitCalls

SpecDetect == InitDetect /\ [][Next]_vars

----
\* The ledgers the scoring is examined on: one account, with a name, a first
\* charge or deposit, and then some payments, an interest charge and a
\* categorized transaction, or none of them.
ScoreNames ==
    {<<"V","i","s","a"," ","M","o","r","t","g","a","g","e">>,
     <<"H","o","m","e"," ","L","o","a","n"," ","A","u","t","o">>,
     <<"C","a","r"," ","S","t","u","d","e","n","t">>,
     <<"T","u","i","t","i","o","n"," ","H","E","L","O","C">>,
     <<"C","r","e","d","i","t"," ","L","i","n","e"," ","(","L","O","C",")">>,
     <<"S","a","v","i","n","g","s">>,
     <<"V","e","h","i","c","l","e">>,
     <<"O","l","d"," ","D","e","b","t">>}

ScoreBalances == {-20000000, -100001, -100000, -10001, -10000, -3000, 5000}

\* No payments; three monthly payments of nearly the same amount; three monthly
\* ones of which one is double; three monthly ones of scattered amounts; three
\* of the same amount two months apart; two monthly ones.
ScorePayments ==
    {{},
     {Row(2, 1000, 9, "", "", <<>>, 0), Row(3, 1000, 10, "", "", <<>>, 0),
      Row(4, 1100, 11, "", "", <<>>, 0)},
     {Row(2, 1000, 9, "", "", <<>>, 0), Row(3, 1000, 10, "", "", <<>>, 0),
      Row(4, 2000, 11, "", "", <<>>, 0)},
     {Row(2, 100, 9, "", "", <<>>, 0), Row(3, 5000, 10, "", "", <<>>, 0),
      Row(4, 1000, 11, "", "", <<>>, 0)},
     {Row(2, 1000, 7, "", "", <<>>, 0), Row(3, 1000, 9, "", "", <<>>, 0),
      Row(4, 1000, 11, "", "", <<>>, 0)},
     {Row(2, 1000, 10, "", "", <<>>, 0), Row(3, 1000, 11, "", "", <<>>, 0)}}

ScoreInterest == {{}, {Row(5, -300, 9, "p-fin", "", <<>>, 0)}}

ScoreCategorized == {{}, {Row(6, 0, 8, "", "c1", <<>>, 0)}}

InitScore ==
    /\ mode = "detect"
    /\ rules = {}
    /\ rule_conditions = {}
    /\ rule_actions = {}
    /\ schedules = {}
    /\ schedules_next_date = {}
    /\ payees = DetectPayees
    /\ today = [y |-> 2024, m |-> 1, d |-> 31]
    /\ \E name \in ScoreNames : \E offbudget \in {0, 1} :
       \E balance \in ScoreBalances : \E paid \in ScorePayments :
       \E charged \in ScoreInterest : \E categorized \in ScoreCategorized :
          LET profile == Profile(name, offbudget, 0, 0, 0,
                                 {Row(1, balance, 6, "", "", <<>>, 0)} \cup paid
                                     \cup charged \cup categorized)
          IN  /\ accounts = <<ProfileAccount(1, profile)>>
              /\ transactions = ProfileTransactions(1, profile)
    /\ categories = StartCategories
    /\ InitCalls

NextScore ==
    \E p \in Slots :
        \/ CallDetect(p)
        \/ DetectAccounts(p)
        \/ DetectAccount(p)
        \/ DetectReturn(p)

SpecScore == InitScore /\ [][NextScore]_vars

----
\* The interest formulas on their own: calculateInterest applied to a balance,
\* an APR and a scheme.
MaxSmallPrincipal == 40

\* Principals in cents: the small ones, where the monthly interest is rounded
\* to a few cents or to none, and larger ones.
Principals ==
    (1..MaxSmallPrincipal) \cup {100, 1000, 9999}
      \cup {13334 + k : k \in 0..MaxSmallPrincipal} \cup {20000, 250000}

\* Annual rates in hundredths of a percent.
Rates == {0, 1, 4, 5, 50, 500, 1575, 1850, 2390, 3999}

Schemes == {"simple", "compound_monthly", "compound_daily", "compound_annually",
            "flat"}

\* Interest amounts and principals handed to calculateAPRFromInterest directly.
Charges == {0, 1, 2, 75}

Owed == {0, 100, 5000, 250000}

Idle ==
    /\ mode = "calc"
    /\ rules = {}
    /\ rule_conditions = {}
    /\ rule_actions = {}
    /\ schedules = {}
    /\ schedules_next_date = {}
    /\ payees = {}
    /\ transactions = {}
    /\ accounts = <<>>
    /\ categories = {}
    /\ today = [y |-> 2024, m |-> 1, d |-> 31]
    /\ uuid = [p \in Slots |-> 0]
    /\ pc = [p \in Slots |-> "idle"]
    /\ loc = [p \in Slots |-> IdleLoc]
    /\ last = NoCall
    /\ lastOp = [a \in AccountIds |-> ""]
    /\ calls = 0
    /\ detected = <<>>
    /\ wizard = NoWizard

\* The principals drawn for a scheme: the compound schemes, whose interest is
\* found by exact root extraction, get the ends of both ranges.
PrincipalsOf(interestScheme) ==
    IF interestScheme \in {"compound_daily", "compound_annually"}
    THEN {0, 3, 13334, 250000}
    ELSE Principals \cup {0}

InitInterest ==
    /\ Idle
    /\ \/ \E interestScheme \in Schemes :
          \E principal \in PrincipalsOf(interestScheme) : \E sign \in {-1, 1} :
          \E apr \in Rates :
             calc = [NoCalc EXCEPT !.stage = "interest",
                                   !.balance = sign * principal,
                                   !.apr = apr, !.interestScheme = interestScheme]
       \/ \E interestCharged \in Charges : \E principal \in Owed :
          \E signs \in {-1, 1} \X {-1, 1} : \E interestScheme \in Schemes :
             calc = [NoCalc EXCEPT !.stage = "apr",
                                   !.interestCharged = signs[1] * interestCharged,
                                   !.principal = signs[2] * principal,
                                   !.interestScheme = interestScheme]

\* const interest = calculateInterest(balance, apr, interestScheme, 'monthly')
ApplyCalculateInterest ==
    /\ calc.stage = "interest"
    /\ calc' = [calc EXCEPT
                  !.stage = "inverse",
                  !.interest = Some(calculateInterest(calc.balance, calc.apr,
                                        calc.interestScheme, "monthly")),
                  !.interestCharged = calculateInterest(calc.balance, calc.apr,
                                          calc.interestScheme, "monthly"),
                  !.principal = Abs(calc.balance)]
    /\ UNCHANGED <<tables, accounts, categories, today, uuid, mode, pc, loc, last,
                   lastOp, calls, detected, wizard>>

\* const apr = calculateAPRFromInterest(interestCharged, principal, scheme),
\* on the interest just calculated (the round trip) or on amounts given.
ApplyCalculateAPRFromInterest ==
    /\ calc.stage \in {"inverse", "apr"}
    /\ calc' = [calc EXCEPT
                  !.stage = IF calc.stage = "inverse" THEN "roundTrip" ELSE "aprDone",
                  !.rate = calculateAPRFromInterest(calc.interestCharged,
                               calc.principal, calc.interestScheme)]
    /\ UNCHANGED <<tables, accounts, categories, today, uuid, mode, pc, loc, last,
                   lastOp, calls, detected, wizard>>

NextInterest ==
    \/ ApplyCalculateInterest
    \/ ApplyCalculateAPRFromInterest

SpecInterest == InitInterest /\ [][NextInterest]_vars

----
\* The posting date on its own: getNextInterestDate applied to a posting day
\* and a starting date, or to none, which stands for the current day.
Years == {2023, 2024, 2099, 2100}

FromDates ==
    {[y |-> y, m |-> m, d |-> d] :
        y \in Years, m \in 1..12, d \in {1, 15, 28, 29, 30, 31}}

\* The posting days handed in: null, those of the form 1..31, and 0.
PostingDays == {None} \cup {Some(d) : d \in 0..31}

InitDates ==
    /\ Idle
    /\ \E interestPostingDay \in PostingDays :
          \/ calc = [NoCalc EXCEPT !.stage = "date",
                                   !.interestPostingDay = interestPostingDay]
          \/ \E fromDate \in FromDates :
                /\ fromDate.d <= DaysInMonth(fromDate.y, fromDate.m)
                /\ calc = [NoCalc EXCEPT !.stage = "date",
                                         !.interestPostingDay = interestPostingDay,
                                         !.fromDate = Some(fromDate)]

\* const nextDate = getNextInterestDate(interestPostingDay, fromDate)
ApplyGetNextInterestDate ==
    /\ calc.stage = "date"
    /\ calc' = [calc EXCEPT
                  !.stage = "dated",
                  !.nextDate = getNextInterestDate(calc.interestPostingDay,
                                                   calc.fromDate)]
    /\ UNCHANGED <<tables, accounts, categories, today, uuid, mode, pc, loc, last,
                   lastOp, calls, detected, wizard>>

NextDates == ApplyGetNextInterestDate

SpecDates == InitDates /\ [][NextDates]_vars

----
\* DebtMigrationWizard, the modal that turns debt tracking on: one action per
\* button and per await of its handlers. The debt type and the APR of an
\* account's config are payload of the conversion request and are left out;
\* accountConfigs holds the accounts that have a config.

\* export-budget and debt-detect-accounts requests that may be in flight at once
MaxInFlight == 1

\* The variables the wizard never writes.
Engine == <<tables, accounts, categories, today, uuid, mode, pc, loc, last, lastOp,
            calls, detected, calc>>

\* The accounts in the order detectDebtAccounts lists them.
AccountOrder == <<"a1", "a2">>

Confidences == {"high", "medium", "low"}

\* What send('debt-detect-accounts') can resolve to: some of the accounts, in
\* account order, each with a confidence.
DetectResponses ==
    {SelectSeq([i \in 1..Len(AccountOrder) |->
                   [accountId |-> AccountOrder[i], confidence |-> c[AccountOrder[i]]]],
               LAMBDA cand : cand.confidence \in Confidences) :
       c \in [AccountIds -> Confidences \cup {"none"}]}

EXPORT_FAILURE == "export failed"
MIGRATION_FAILURE == "migration failed"
CONVERSION_FAILURE == "conversion failed"

\* The ids of the candidates of a detection result that are selected at once.
HighConfidence(detectedList) ==
    LET kept == SelectSeq(detectedList,
                          LAMBDA c : c.confidence = "high" \/ c.confidence = "medium")
    IN  [i \in 1..Len(kept) |-> kept[i].accountId] \o <<>>

CandidateIds(detectedList) ==
    {detectedList[i].accountId : i \in 1..Len(detectedList)}

SeqMembers(list) == {list[i] : i \in 1..Len(list)}

\* loadCandidates up to its await: setLoading(true) and the request sent.
loadCandidates(w) ==
    [w EXCEPT !.loading = TRUE, !.detecting = w.detecting + 1]

\* The Continue button of the backup step opens the detect step everywhere.
ContinueDisabledNever(w) == FALSE

\* isDisabled={!backupCreated} on the Continue button of the backup step.
ContinueDisabled(w) == ~w.backupCreated

\* The 'debt-run-migration' handler when it succeeds: the migration's columns
\* are there, all of them, as the migration is one transaction.
RunMigration(w) == [w EXCEPT !.migrated = TRUE]

\* The 'account-convert-to-debt' handler when it succeeds, for isDebt: true:
\* the account's is_debt flag is stored.
ConvertToDebt(w, accountId) == [w EXCEPT !.is_debt = w.is_debt \cup {accountId}]

\* handleApply up to its first await: status 'running', progress 10, the
\* migration request sent; selectedAccounts and accountConfigs are the values of
\* the render the button was pressed in.
handleApply(w) ==
    [w EXCEPT !.applyStatus = "running",
              !.applyProgress = 10,
              !.errorMessage = None,
              !.apply = [pc |-> "migration", selectedList |-> w.selectedAccounts,
                         configs |-> w.accountConfigs, i |-> 0],
              !.before = [migrated |-> w.migrated, is_debt |-> w.is_debt]]

\* catch (e) of handleApply: status 'error' and the message, nothing else.
ApplyCaught(w, e) ==
    [w EXCEPT !.applyStatus = "error",
              !.errorMessage = Some(e),
              !.apply = [w.apply EXCEPT !.pc = "idle"]]

\* The conversion loop of handleApply from index i (1-based) to its next await:
\* accounts without a config are passed over; after the last account the
\* preference is set, the status is 'success' and the step is 'complete'.
ConvertFrom(w, i) ==
    LET list == w.apply.selectedList
        progressPerAccount == IF Len(list) > 0 THEN 60 \div Len(list) ELSE 60
        waiting == {j \in i..Len(list) : list[j] \in w.apply.configs}
    IN  IF waiting # {}
        THEN LET j == CHOOSE k \in waiting : \A l \in waiting : k <= l
             IN  [w EXCEPT !.applyProgress = 30 + (j - 1) * progressPerAccount,
                           !.apply = [w.apply EXCEPT !.pc = "convert", !.i = j]]
        ELSE [w EXCEPT !.applyProgress = 100,
                       !.debtTrackingEnabled = TRUE,
                       !.applyStatus = "success",
                       !.step = "complete",
                       !.apply = [w.apply EXCEPT !.pc = "idle", !.i = Len(list) + 1]]

\* Get Started on the welcome step.
GetStarted ==
    /\ wizard.open /\ wizard.step = "welcome"
    /\ wizard' = [wizard EXCEPT !.step = "backup"]
    /\ UNCHANGED Engine

\* Not Now on the welcome step.
handleSkip ==
    /\ wizard.open /\ wizard.step = "welcome"
    /\ wizard' = [wizard EXCEPT !.debtTrackingDismissed = TRUE, !.open = FALSE]
    /\ UNCHANGED Engine

\* The close button of the header, Close of the error view and Get Started of
\* the complete step.
handleClose ==
    /\ wizard.open
    /\ wizard' = [wizard EXCEPT !.open = FALSE]
    /\ UNCHANGED Engine

\* Download Backup: handleBackup up to await send('export-budget').
handleBackup ==
    /\ wizard.open /\ wizard.step = "backup"
    /\ wizard.exporting < MaxInFlight
    /\ wizard' = [wizard EXCEPT !.backupLoading = TRUE,
                                !.backupError = None,
                                !.exporting = wizard.exporting + 1]
    /\ UNCHANGED Engine

\* handleBackup after the await: an error response, a response with data, a
\* response with neither, or a rejected request.
ExportReturns ==
    /\ wizard.exporting > 0
    /\ \E response \in {"error", "data", "empty", "throw"} :
         wizard' = [wizard EXCEPT
                      !.exporting = wizard.exporting - 1,
                      !.backupLoading = FALSE,
                      !.backupError = IF response \in {"error", "throw"}
                                      THEN Some(EXPORT_FAILURE)
                                      ELSE wizard.backupError,
                      !.backupCreated = IF response = "data"
                                        THEN TRUE
                                        ELSE wizard.backupCreated]
    /\ UNCHANGED Engine

\* Continue on the backup step; the effect on step then runs loadCandidates.
BackupContinue ==
    /\ wizard.open /\ wizard.step = "backup"
    /\ ~ContinueDisabled(wizard)
    /\ wizard.detecting < MaxInFlight
    /\ wizard' = loadCandidates([wizard EXCEPT !.step = "detect"])
    /\ UNCHANGED Engine

\* Back on the backup step.
BackupBack ==
    /\ wizard.open /\ wizard.step = "backup"
    /\ wizard' = [wizard EXCEPT !.step = "welcome"]
    /\ UNCHANGED Engine

\* loadCandidates after the await: the candidates, the preselection and a
\* config per candidate, or the error logged; loading ends either way.
DetectReturns ==
    /\ wizard.detecting > 0
    /\ \/ \E detectedList \in DetectResponses :
            wizard' = [wizard EXCEPT
                         !.detecting = wizard.detecting - 1,
                         !.candidates = detectedList,
                         !.selectedAccounts = HighConfidence(detectedList),
                         !.accountConfigs = CandidateIds(detectedList),
                         !.loading = FALSE]
       \/ wizard' = [wizard EXCEPT !.detecting = wizard.detecting - 1,
                                   !.loading = FALSE]
    /\ UNCHANGED Engine

\* The checkbox of a listed candidate.
toggleAccount(accountId) ==
    /\ wizard.open /\ wizard.step = "detect"
    /\ ~wizard.loading
    /\ accountId \in CandidateIds(wizard.candidates)
    /\ wizard' = [wizard EXCEPT
                    !.selectedAccounts =
                        IF accountId \in SeqMembers(wizard.selectedAccounts)
                        THEN SelectSeq(wizard.selectedAccounts,
                                       LAMBDA id : id # accountId)
                        ELSE Append(wizard.selectedAccounts, accountId)]
    /\ UNCHANGED Engine

\* Continue on the detect step.
DetectContinue ==
    /\ wizard.open /\ wizard.step = "detect"
    /\ wizard' = [wizard EXCEPT !.step = "apply"]
    /\ UNCHANGED Engine

\* Back on the detect step.
DetectBack ==
    /\ wizard.open /\ wizard.step = "detect"
    /\ wizard' = [wizard EXCEPT !.step = "backup"]
    /\ UNCHANGED Engine

\* Apply Changes, shown while the status is 'idle'.
ApplyChanges ==
    /\ wizard.open /\ wizard.step = "apply"
    /\ wizard.applyStatus = "idle"
    /\ wizard' = handleApply(wizard)
    /\ UNCHANGED Engine

\* Back on the apply step, shown while the status is 'idle'; the effect on
\* step then runs loadCandidates.
ApplyBack ==
    /\ wizard.open /\ wizard.step = "apply"
    /\ wizard.applyStatus = "idle"
    /\ wizard.detecting < MaxInFlight
    /\ wizard' = loadCandidates([wizard EXCEPT !.step = "detect"])
    /\ UNCHANGED Engine

\* Retry, shown while the status is 'error'.
Retry ==
    /\ wizard.open /\ wizard.step = "apply"
    /\ wizard.applyStatus = "error"
    /\ wizard' = handleApply(wizard)
    /\ UNCHANGED Engine

\* handleApply after await send('debt-run-migration'): the migration has
\* committed, or it has not and the result holds an error or the request was
\* rejected.
MigrationReturns ==
    /\ wizard.apply.pc = "migration"
    /\ \/ wizard' = ConvertFrom([RunMigration(wizard) EXCEPT !.applyProgress = 30], 1)
       \/ wizard' = ApplyCaught(wizard, MIGRATION_FAILURE)
    /\ UNCHANGED Engine

\* handleApply after await send('account-convert-to-debt', {id, isDebt: true,
\* ...}): the account is a debt account and the loop goes on, or the request
\* was rejected.
ConvertReturns ==
    /\ wizard.apply.pc = "convert"
    /\ LET accountId == wizard.apply.selectedList[wizard.apply.i]
       IN  \/ wizard' = ConvertFrom(ConvertToDebt(wizard, accountId), wizard.apply.i + 1)
           \/ wizard' = ApplyCaught(wizard, CONVERSION_FAILURE)
    /\ UNCHANGED Engine

\* The wizard opened on a ledger whose schema is not migrated and that has no
\* debt account; the engine is not called.
InitWizard ==
    /\ mode = "wizard"
    /\ rules = {}
    /\ rule_conditions = {}
    /\ rule_actions = {}
    /\ schedules = {}
    /\ schedules_next_date = {}
    /\ payees = {}
    /\ transactions = {}
    /\ accounts = <<>>
    /\ categories = {}
    /\ today = [y |-> 2024, m |-> 1, d |-> 31]
    /\ uuid = [p \in Slots |-> 0]
    /\ pc = [p \in Slots |-> "idle"]
    /\ loc = [p \in Slots |-> IdleLoc]
    /\ last = NoCall
    /\ lastOp = [a \in AccountIds |-> ""]
    /\ calls = 0
    /\ detected = <<>>
    /\ calc = NoCalc
    /\ wizard = [NoWizard EXCEPT !.open = TRUE]

NextWizard ==
    \/ GetStarted
    \/ handleSkip
    \/ handleClose
    \/ handleBackup
    \/ ExportReturns
    \/ BackupContinue
    \/ BackupBack
    \/ DetectReturns
    \/ \E accountId \in AccountIds : toggleAccount(accountId)
    \/ DetectContinue
    \/ DetectBack
    \/ ApplyChanges
    \/ ApplyBack
    \/ Retry
    \/ MigrationReturns
    \/ ConvertReturns

SpecWizard == InitWizard /\ [][NextWizard]_vars

----
\* What the claims speak of.
AllIdle == \A p \in Slots : pc[p] = "idle"

\* The non-staged schedules whose rule has an account-match condition for a,
\* in the tables of store st.
AccountSchedules(st, a) ==
    {s \in st.schedules :
        \E r \in st.rules :
            /\ r.id = s.rule
            /\ r.stage = NULL
            /\ \E c \in st.rule_conditions :
                  c.rule = r.id /\ c.field = "acct" /\ c.value = a}

\* The sum of the account's non-tombstoned transactions in store st.
LiveTransactions(st, a) == {t \in st.transactions : t.acct = a /\ t.tombstone = 0}

RECURSIVE Total(_)
Total(ts) ==
    IF ts = {} THEN 0
    ELSE LET t == CHOOSE x \in ts : TRUE IN t.amount + Total(ts \ {t})

LiveBalance(st, a) == Total(LiveTransactions(st, a))

InterestPayees == {r \in payees : r.name = INTEREST_CHARGE}

\* C1: with the calls made one after the other, every account has at most one
\* non-staged schedule whose rule matches it; it has exactly one after a
\* setupInterestSchedule for it returned and none after a deleteInterestSchedule
\* returned, and a setup that follows a delete returns a schedule that did not
\* exist before the call.
C1_OneSchedulePerAccount ==
    /\ \A a \in AccountIds :
          /\ Cardinality(AccountSchedules(Store, a)) <= 1
          /\ AllIdle /\ lastOp[a] = "setup"
                => Cardinality(AccountSchedules(Store, a)) = 1
          /\ AllIdle /\ lastOp[a] = "delete"
                => Cardinality(AccountSchedules(Store, a)) = 0
    /\ AllIdle /\ last.op = "setup" /\ last.prior = "delete"
          => /\ \E s \in AccountSchedules(Store, last.accountId) : s.id = last.result
             /\ \A s \in last.pre.schedules : s.id # last.result

C1_Witness ==
    /\ AllIdle
    /\ last.op = "setup"
    /\ last.prior = "delete"
    /\ schedules_next_date # {}
    /\ Cardinality(AccountSchedules(Store, last.accountId)) = 1

\* C2: a setupInterestSchedule on an account that has a schedule returns that
\* schedule's id, and when it has returned the rule's debt_interest_config
\* action holds the JSON of the call's {apr, interestScheme,
\* compoundingFrequency}, its category action holds the call's category, and
\* the schedule's next date is getNextInterestDate(posting day, today).
C2_UpdateReflectsLatestCall ==
    AllIdle /\ last.op = "setup" /\ ~IsNone(last.existing)
      => LET old == The(last.existing)
             config == {x \in rule_actions :
                           x.rule = old.rule /\ x.field = "debt_interest_config"}
             category == {x \in rule_actions :
                           x.rule = old.rule /\ x.field = "category"}
             next == {n \in schedules_next_date : n.schedule_id = old.id}
             due == getNextInterestDate(last.interestPostingDay, Some(today))
         IN  /\ last.result = old.id
             /\ old \in {[id |-> s.id, rule |-> s.rule] :
                            s \in AccountSchedules(last.pre, last.accountId)}
             /\ config # {}
             /\ \A x \in config :
                   x.value = JSONstringify(last.apr, last.interestScheme,
                                           last.compoundingFrequency)
             /\ category # {}
             /\ \A x \in category : x.value = last.interestCategoryId
             /\ next # {}
             /\ \A n \in next : /\ fromDateRepr(n.local_next_date) = due
                                /\ fromDateRepr(n.base_next_date) = due

C2_Witness ==
    /\ AllIdle
    /\ last.op = "setup"
    /\ ~IsNone(last.existing)
    /\ \E x \in last.pre.rule_actions :
          /\ x.rule = The(last.existing).rule
          /\ x.field = "debt_interest_config"
          /\ x.value # JSONstringify(last.apr, last.interestScheme,
                                     last.compoundingFrequency)
    /\ \E x \in last.pre.rule_actions :
          /\ x.rule = The(last.existing).rule
          /\ x.field = "category"
          /\ x.value # last.interestCategoryId
    /\ \E n \in last.pre.schedules_next_date :
          /\ n.schedule_id = The(last.existing).id
          /\ n.local_next_date # toDateRepr(
                getNextInterestDate(last.interestPostingDay, Some(today)))

\* C3: when deleteInterestSchedule has returned on an account that had a
\* schedule, the schedule's next-date record, the schedule, the conditions and
\* actions of its rule and the rule are gone; on an account with no schedule it
\* throws nothing and the storage is as it was.
C3_DeleteRemovesAll ==
    AllIdle /\ last.op = "delete"
      => /\ last.error = ""
         /\ IF IsNone(last.existing)
            THEN Store = last.pre
            ELSE LET old == The(last.existing)
                 IN  /\ \A n \in schedules_next_date : n.schedule_id # old.id
                     /\ \A x \in schedules : x.id # old.id
                     /\ \A c \in rule_conditions : c.rule # old.rule
                     /\ \A x \in rule_actions : x.rule # old.rule
                     /\ \A r \in rules : r.id # old.rule

\* C6: when the interest computed from the account's live balance is 0,
\* postInterestTransaction raises the "nothing to post" error and the storage
\* is what it was before the call: no transaction and no payee was written.
C6_ZeroInterestWritesNothing ==
    (/\ AllIdle
     /\ last.op = "post"
     /\ calculateInterest(LiveBalance(last.pre, last.accountId), last.apr,
                          last.interestScheme, last.compoundingFrequency) = 0)
      => /\ last.error = NO_INTEREST
         /\ Store = last.pre

C6_Witness ==
    /\ AllIdle
    /\ last.op = "post"
    /\ last.error = NO_INTEREST
    /\ last.apr > 0
    /\ LiveTransactions(last.pre, last.accountId) # {}
    /\ Store = last.pre

\* C7: a postInterestTransaction that returned inserted exactly one
\* transaction, on the given account, whose amount is minus the interest
\* computed from the live balance, below 0 when the balance is not 0 and the
\* APR is above 0; the transaction is cleared, carries the Interest Charge payee
\* and the given category, and is dated with the date argument, or with today
\* when there is none.
C7_PostInsertsOneCharge ==
    (AllIdle /\ last.op = "post" /\ last.error = "")
      => LET balance == LiveBalance(last.pre, last.accountId)
         IN  \E t \in transactions :
                /\ t \notin last.pre.transactions
                /\ transactions = last.pre.transactions \cup {t}
                /\ t.id = last.result
                /\ t.acct = last.accountId
                /\ t.amount = -calculateInterest(balance, last.apr,
                                  last.interestScheme, last.compoundingFrequency)
                /\ (balance # 0 /\ last.apr > 0) => t.amount < 0
                /\ t.cleared
                /\ t.tombstone = 0
                /\ \E r \in InterestPayees : r.id = t.payee
                /\ t.category = last.interestCategoryId
                /\ t.date = IF IsNone(last.date) THEN today ELSE The(last.date)

C7_Witness ==
    /\ AllIdle
    /\ last.op = "post"
    /\ last.error = ""
    /\ LiveBalance(last.pre, last.accountId) > 0
    /\ ~IsNone(last.date)
    /\ \E t \in transactions : t.id = last.result /\ t.amount < 0

\* C8: with setupInterestSchedule and postInterestTransaction called one after
\* the other on a storage that starts without an Interest Charge payee, there
\* is never more than one payee of that name, there is exactly one once a setup
\* or a post has returned, and every rule payee action and every posted
\* interest transaction references it.
C8_InterestPayeeSingleton ==
    /\ Cardinality(InterestPayees) <= 1
    /\ (AllIdle /\ last.op \in {"setup", "post"} /\ last.error = "")
          => Cardinality(InterestPayees) = 1
    /\ \A a \in rule_actions :
          a.field = "payee" => \E r \in InterestPayees : r.id = a.value
    /\ \A t \in transactions :
          t.notes # <<>> => \E r \in InterestPayees : r.id = t.payee

C8_Witness ==
    /\ AllIdle
    /\ Cardinality(InterestPayees) = 1
    /\ \E a \in rule_actions : a.field = "payee"
    /\ \E t \in transactions : t.notes # <<>>
    /\ calls = MaxCalls

\* C4: the schedule that setupInterestSchedule or deleteInterestSchedule
\* selects is non-staged and its rule has exactly one condition, the account
\* match of the call's account; a schedule whose rule has further conditions or
\* is staged is never selected, so its records stay as they were.
C4_SelectsOnlyInterestSchedules ==
    /\ \A p \in Slots :
          ~IsNone(loc[p].existing)
            => LET old == The(loc[p].existing)
                   conditions == {c \in loc[p].pre.rule_conditions :
                                     c.rule = old.rule}
               IN  /\ \E r \in loc[p].pre.rules : r.id = old.rule /\ r.stage = NULL
                   /\ Cardinality(conditions) = 1
                   /\ \A c \in conditions :
                         c.field = "acct" /\ c.value = loc[p].accountId
    /\ ForeignStore.rules \subseteq rules
    /\ ForeignStore.rule_conditions \subseteq rule_conditions
    /\ ForeignStore.rule_actions \subseteq rule_actions
    /\ ForeignStore.schedules \subseteq schedules
    /\ ForeignStore.schedules_next_date \subseteq schedules_next_date

\* C5: when the caller serializes the schedule mutations of each account, no
\* account ever has two schedules; two interleaved setupInterestSchedule calls
\* for one account can leave it with two.
C5_SerializedNeverDuplicates ==
    mode = "acct"
      => \A a \in AccountIds : Cardinality(AccountSchedules(Store, a)) <= 1

C5_Witness ==
    /\ mode = "race"
    /\ AllIdle
    /\ \E a \in AccountIds : Cardinality(AccountSchedules(Store, a)) = 2

\* The place of the account in the result of the account query.
Position(accountId) == CHOOSE k \in DOMAIN accounts : accounts[k].id = accountId

C10_DescendingScoreStable ==
    \A i \in DOMAIN detected : \A j \in DOMAIN detected :
        i < j
          => /\ detected[i].score >= detected[j].score
             /\ detected[i].score = detected[j].score
                   => Position(detected[i].accountId)
                          < Position(detected[j].accountId)

C10_Witness ==
    /\ AllIdle
    /\ last.op = "detect"
    /\ Len(detected) = 3
    /\ detected[1].score > detected[2].score
    /\ detected[2].score = detected[3].score
    /\ Position(detected[1].accountId) = 3
    /\ Position(detected[2].accountId) = 1

Content(t) ==
    [amount |-> t.amount, date |-> t.date, payee |-> t.payee,
     category |-> t.category, cleared |-> t.cleared, notes |-> t.notes]

LiveContent(a) == {Content(t) : t \in LiveTransactions(Store, a)}

Tombstoned(a) == {Content(t) : t \in {x \in transactions : x.acct = a /\ x.tombstone = 1}}

\* Two accounts that the account query returns, alike but for their ids and
\* their tombstoned transactions.
Twins(k, l) ==
    /\ k # l
    /\ IsCandidateAccount(accounts[k])
    /\ IsCandidateAccount(accounts[l])
    /\ accounts[k].name = accounts[l].name
    /\ accounts[k].offbudget = accounts[l].offbudget
    /\ LiveContent(accounts[k].id) = LiveContent(accounts[l].id)

Verdict(accountId) ==
    {[balance |-> detected[i].balance, score |-> detected[i].score,
      reasons |-> detected[i].reasons, detectedAPR |-> detected[i].detectedAPR,
      confidence |-> detected[i].confidence,
      suggestedDebtType |-> detected[i].suggestedDebtType] :
        i \in {j \in DOMAIN detected : detected[j].accountId = accountId}}

\* C12: tombstoned transactions change no result: two accounts whose ledgers
\* differ only in tombstoned transactions get the same verdict from
\* detectDebtAccounts (returned or not, balance, score, reasons, APR
\* estimate), and the interest postInterestTransaction computes is the
\* interest of the sum of the account's non-tombstoned transactions.
C12_TombstonedIgnored ==
    /\ (AllIdle /\ last.op = "detect")
          => \A k \in DOMAIN accounts : \A l \in DOMAIN accounts :
                Twins(k, l) => Verdict(accounts[k].id) = Verdict(accounts[l].id)
    /\ (AllIdle /\ last.op = "post")
          => last.interestAmount =
                calculateInterest(LiveBalance(last.pre, last.accountId), last.apr,
                                  last.interestScheme, last.compoundingFrequency)

C12_Witness ==
    /\ AllIdle
    /\ last.op = "detect"
    /\ last.prior = "post"
    /\ \E t \in transactions : t.acct = "a1" /\ t.tombstone = 1
    /\ \E t \in transactions : t.acct = "a1" /\ t.notes = InterestNote(1850, "simple")
    /\ \E k \in DOMAIN accounts : \E l \in DOMAIN accounts :
          /\ Twins(k, l)
          /\ Tombstoned(accounts[k].id) # Tombstoned(accounts[l].id)
          /\ Verdict(accounts[k].id) # {}
          /\ Verdict(accounts[l].id) # {}

\* C13: calculateInterest of a debt of principal > 0 at an APR >= 0 is never
\* below 0, and is 0 exactly when the APR is 0 (or the principal is), for
\* every scheme.
C13_ZeroOnlyWithoutRateOrPrincipal ==
    (calc.stage \in {"inverse", "roundTrip"} /\ calc.balance <= 0)
      => /\ The(calc.interest) >= 0
         /\ The(calc.interest) = 0 <=> (calc.apr = 0 \/ calc.balance = 0)

\* The round trip returned a rate within 0.05 of the rate it started from.
RoundTripClose ==
    /\ calc.rate # None
    /\ Abs(The(calc.rate) - calc.apr) <= 5

SameFormulaSchemes == {"simple", "compound_monthly"}

\* C14 as stated: for the schemes simple and compound_monthly, the APR worked
\* back from the interest calculated on a debt is within 0.05 of the APR the
\* interest was calculated at, for every principal, small ones included.
C14_RoundTripAnyPrincipal ==
    (/\ calc.stage = "roundTrip"
     /\ calc.interestScheme \in SameFormulaSchemes
     /\ calc.balance < 0)
      => RoundTripClose

\* C14 as amended: for the schemes simple and compound_monthly, a debt of at
\* least 13334 cents and an APR of at least 0.05, the APR worked back from the
\* calculated interest is within 0.05 of the APR the interest was calculated at.
C14_RoundTripFromThreshold ==
    (/\ calc.stage = "roundTrip"
     /\ calc.interestScheme \in SameFormulaSchemes
     /\ calc.balance <= -13334
     /\ calc.apr >= 5)
      => RoundTripClose

C14_Witness ==
    /\ calc.stage = "roundTrip"
    /\ calc.interestScheme = "compound_monthly"
    /\ calc.balance = -13334
    /\ calc.apr = 5
    /\ calc.rate = Some(9)

\* C15: calculateAPRFromInterest returns null exactly when the interest or the
\* principal is 0, for every scheme, unknown ones included, and for amounts of
\* either sign it returns what it returns for their absolute values.
C15_NullOnlyForZero ==
    calc.stage = "aprDone"
      => /\ calc.rate = None <=> (calc.interestCharged = 0 \/ calc.principal = 0)
         /\ calc.rate = calculateAPRFromInterest(Abs(calc.interestCharged),
                            Abs(calc.principal), calc.interestScheme)

C15_Witness ==
    /\ calc.stage = "aprDone"
    /\ calc.interestCharged = -75
    /\ calc.principal = -100
    /\ calc.interestScheme = "compound_daily"
    /\ calc.rate = Some(68726)

KnownSchemes == {"simple", "compound_monthly", "compound_daily", "compound_annually"}

\* C16: for a scheme that is none of the four known ones, calculateInterest
\* returns what it returns for 'simple' on the same balance and APR, and
\* calculateAPRFromInterest returns what it returns for 'simple' on the same
\* interest and principal.
C16_UnknownSchemeIsSimple ==
    calc.interestScheme \notin KnownSchemes
      => /\ calc.stage \in {"inverse", "roundTrip"}
              => calc.interest = Some(calculateInterest(calc.balance, calc.apr,
                                           "simple", "monthly"))
         /\ calc.stage \in {"roundTrip", "aprDone"}
              => calc.rate = calculateAPRFromInterest(calc.interestCharged,
                                 calc.principal, "simple")

C16_Witness ==
    /\ calc.stage = "roundTrip"
    /\ calc.interestScheme = "flat"
    /\ calc.balance = -250000
    /\ calc.apr = 1575
    /\ calc.interest = Some(3281)
    /\ calc.rate = Some(1575)

\* The calendar as the claims state it: February has 29 days in leap years
\* and 28 otherwise.
MonthLength(y, m) ==
    <<31, IF (y % 4 = 0 /\ y % 100 # 0) \/ y % 400 = 0 THEN 29 ELSE 28, 31, 30, 31,
      30, 31, 31, 30, 31, 30, 31>>[m]

IsCalendarDate(day) ==
    /\ day.m \in 1..12
    /\ day.d \in 1..MonthLength(day.y, day.m)

\* The day getNextInterestDate started from.
StartDay == IF IsNone(calc.fromDate) THEN today ELSE The(calc.fromDate)

\* The month after the starting day's, December followed by January of the
\* next year.
FollowingMonth ==
    IF StartDay.m = 12 THEN [y |-> StartDay.y + 1, m |-> 1]
    ELSE [y |-> StartDay.y, m |-> StartDay.m + 1]

\* The posting day is null or one of 1..31.
PostingDayInRange ==
    IsNone(calc.interestPostingDay) \/ The(calc.interestPostingDay) \in 1..31

\* C17: for a posting day in 1..31 or null, getNextInterestDate returns a
\* calendar date that exists and lies in the month right after the starting
\* date's month, whatever the requested day.
C17_NextCalendarMonth ==
    (calc.stage = "dated" /\ PostingDayInRange)
      => /\ IsCalendarDate(calc.nextDate)
         /\ [y |-> calc.nextDate.y, m |-> calc.nextDate.m] = FollowingMonth

C17_Witness ==
    /\ calc.stage = "dated"
    /\ calc.interestPostingDay = Some(31)
    /\ calc.fromDate = Some([y |-> 2099, m |-> 12, d |-> 31])
    /\ calc.nextDate = [y |-> 2100, m |-> 1, d |-> 31]

\* C18: the day returned is the smaller of the posting day and the length of
\* the target month for a posting day in 1..31, and the length of the target
\* month for null.
C18_DayClamped ==
    (calc.stage = "dated" /\ PostingDayInRange)
      => LET length == MonthLength(FollowingMonth.y, FollowingMonth.m)
         IN  calc.nextDate.d =
                IF IsNone(calc.interestPostingDay) THEN length
                ELSE IF The(calc.interestPostingDay) < length
                     THEN The(calc.interestPostingDay) ELSE length

C18_Witness ==
    /\ calc.stage = "dated"
    /\ calc.interestPostingDay = Some(31)
    /\ calc.fromDate = Some([y |-> 2024, m |-> 1, d |-> 31])
    /\ calc.nextDate = [y |-> 2024, m |-> 2, d |-> 29]

\* C19: a posting day of 0 gives what null gives, the last day of the month
\* after the starting date's.
C19_ZeroIsLastDay ==
    (calc.stage = "dated" /\ calc.interestPostingDay = Some(0))
      => calc.nextDate = [y |-> FollowingMonth.y, m |-> FollowingMonth.m,
                          d |-> MonthLength(FollowingMonth.y, FollowingMonth.m)]

\* No stored record references a missing parent.
NoDanglingReference ==
    /\ \A n \in schedules_next_date : \E x \in schedules : x.id = n.schedule_id
    /\ \A x \in schedules : \E r \in rules : r.id = x.rule
    /\ \A c \in rule_conditions : \E r \in rules : r.id = c.rule
    /\ \A x \in rule_actions : \E r \in rules : r.id = x.rule

\* C20: while a deleteInterestSchedule or a setupInterestSchedule is between
\* two of its storage steps, and when it has returned, a next-date record
\* exists only with its schedule, a schedule only with its rule, and conditions
\* and actions only with their rule.
C20_NoDanglingReference ==
    (\/ \E p \in Slots : pc[p] # "idle" /\ loc[p].op \in {"setup", "delete"}
     \/ AllIdle /\ last.op \in {"setup", "delete"})
      => NoDanglingReference

\* The records of store st that belong to schedule x: the conditions and
\* actions of its rule and its next-date records.
ConditionsOf(st, x) == {c \in st.rule_conditions : c.rule = x.rule}

ActionsOf(st, x) == {c \in st.rule_actions : c.rule = x.rule}

NextDatesOf(st, x) == {n \in st.schedules_next_date : n.schedule_id = x.id}

\* C21: when a setupInterestSchedule has returned, with the calls made one
\* after the other, the account's rule has exactly one condition, acct is the
\* account, and exactly three actions, set payee, set category and set
\* debt_interest_config, and its schedule has exactly one next-date record; a
\* call that found a schedule left the number of conditions, actions and
\* next-date records as it was.
C21_OneConditionThreeActions ==
    (AllIdle /\ last.op = "setup" /\ last.error = "")
      => /\ AccountSchedules(Store, last.accountId) # {}
         /\ \A x \in AccountSchedules(Store, last.accountId) :
               /\ Cardinality(ConditionsOf(Store, x)) = 1
               /\ \A c \in ConditionsOf(Store, x) :
                     c.field = "acct" /\ c.op = "is" /\ c.value = last.accountId
               /\ Cardinality(ActionsOf(Store, x)) = 3
               /\ {c.field : c \in ActionsOf(Store, x)} =
                     {"payee", "category", "debt_interest_config"}
               /\ \A c \in ActionsOf(Store, x) : c.op = "set"
               /\ Cardinality(NextDatesOf(Store, x)) = 1
         /\ ~IsNone(last.existing)
               => /\ Cardinality(rule_conditions) = Cardinality(last.pre.rule_conditions)
                  /\ Cardinality(rule_actions) = Cardinality(last.pre.rule_actions)
                  /\ Cardinality(schedules_next_date) =
                        Cardinality(last.pre.schedules_next_date)

C21_Witness ==
    /\ AllIdle
    /\ last.op = "setup"
    /\ last.error = ""
    /\ ~IsNone(last.existing)
    /\ last.prior = "setup"
    /\ calls = 3
    /\ Cardinality(ActionsOf(Store, The(last.existing))) = 3

\* The score the claim gives an account on the current ledger: the sum of the
\* weights of the signals that hold.  The consistency c of a payment pattern is
\* kept as the rational q = (1 - c)^2, so c > 0.8 is 25 * q < 1 and c > 0.6 is
\* 25 * q < 4.
SignalScore(account) ==
    LET balance == LiveBalance(Store, account.id)
        named == Like(account.name, debtKeywords)
        pattern == analyzePaymentPatterns(account.id)
        monthly == pattern.paymentCount >= 3 /\ pattern.paymentFrequency = "monthly"
        q == pattern.consistency
    IN  (IF balance < -100000 THEN 30 ELSE IF balance < -10000 THEN 15 ELSE 0)
          + (IF named THEN 25 ELSE 0)
          + (IF account.offbudget = 1 THEN 10 ELSE 0)
          + (IF account.offbudget = 1 /\ named THEN 15 ELSE 0)
          + (IF monthly /\ 25 * q.num < q.den THEN 20
             ELSE IF monthly /\ 25 * q.num < 4 * q.den THEN 10 ELSE 0)
          + (IF detectInterestTransactions(account.id).hasInterest THEN 25 ELSE 0)
          + (IF checkDebtCategories(account.id) THEN 15 ELSE 0)

\* C22: when detectDebtAccounts has returned, every account it evaluated (not
\* flagged as debt, not closed, not tombstoned, live balance below 0) whose
\* signal weights sum to at least 40 is in the list with that sum as its score,
\* and every such account whose weights sum to less is not in the list.
C22_ScoreIsSumOfWeights ==
    (AllIdle /\ last.op = "detect")
      => \A k \in DOMAIN accounts :
            (IsCandidateAccount(accounts[k])
                /\ LiveBalance(Store, accounts[k].id) < 0)
              => IF SignalScore(accounts[k]) >= 40
                 THEN \E i \in DOMAIN detected :
                         /\ detected[i].accountId = accounts[k].id
                         /\ detected[i].score = SignalScore(accounts[k])
                 ELSE \A i \in DOMAIN detected :
                         detected[i].accountId # accounts[k].id

C22_Witness ==
    /\ AllIdle
    /\ last.op = "detect"
    /\ Len(detected) = 1
    /\ detected[1].score = 130
    /\ accounts[1].offbudget = 1
    /\ analyzePaymentPatterns("a1").paymentCount = 3
    /\ ~MoreConsistentThan(analyzePaymentPatterns("a1").consistency, 4)

\* C23: every candidate detectDebtAccounts returned has a score of at least
\* 40 and the tier of its score: high exactly from 70 on, medium exactly from
\* 50 to 69, low exactly from 40 to 49.
C23_TierFollowsScore ==
    (AllIdle /\ last.op = "detect")
      => \A i \in DOMAIN detected :
            /\ detected[i].score >= 40
            /\ detected[i].confidence \in {"high", "medium", "low"}
            /\ detected[i].confidence = "high" <=> detected[i].score >= 70
            /\ detected[i].confidence = "medium"
                  <=> (detected[i].score >= 50 /\ detected[i].score < 70)
            /\ detected[i].confidence = "low"
                  <=> (detected[i].score >= 40 /\ detected[i].score < 50)

C23_Witness ==
    /\ AllIdle
    /\ last.op = "detect"
    /\ Len(detected) = 1
    /\ detected[1].score = 65
    /\ detected[1].confidence = "medium"

\* The keyword groups of the debt types, in the order of their priority.
CardWords ==
    <<<<"c","r","e","d","i","t"," ","c","a","r","d">>,
      <<"v","i","s","a">>,
      <<"m","a","s","t","e","r","c","a","r","d">>,
      <<"d","i","s","c","o","v","e","r">>,
      <<"a","m","e","x">>,
      <<"a","m","e","r","i","c","a","n"," ","e","x","p","r","e","s","s">>>>

MortgageWords == <<<<"m","o","r","t","g","a","g","e">>, <<"h","o","m","e"," ","l","o","a","n">>>>

AutoWords == <<<<"a","u","t","o">>, <<"c","a","r">>, <<"v","e","h","i","c","l","e">>>>

StudentWords == <<<<"s","t","u","d","e","n","t">>, <<"e","d","u","c","a","t","i","o","n">>, <<"t","u","i","t","i","o","n">>>>

CreditLineWords ==
    <<<<"l","i","n","e"," ","o","f"," ","c","r","e","d","i","t">>, <<"l","o","c">>, <<"h","e","l","o","c">>>>

\* The type the claim gives a candidate: that of the first group that matches.
FirstMatchingType(candidate) ==
    CASE Like(candidate.accountName, CardWords) -> "credit_card"
      [] \/ Like(candidate.accountName, MortgageWords)
         \/ /\ candidate.balance < -10000000
            /\ analyzePaymentPatterns(candidate.accountId).paymentFrequency
                  = "monthly" -> "mortgage"
      [] Like(candidate.accountName, AutoWords) -> "auto_loan"
      [] Like(candidate.accountName, StudentWords) -> "student_loan"
      [] Like(candidate.accountName, CreditLineWords) -> "line_of_credit"
      [] OTHER -> "personal_loan"

\* C24: the suggested debt type of every candidate detectDebtAccounts
\* returned is that of the first group, in the order credit card, mortgage
\* (by name, or by a balance below -$100,000 with monthly payments), auto
\* loan, student loan, line of credit, that matches, and personal_loan if
\* none does.
C24_FirstMatchingType ==
    (AllIdle /\ last.op = "detect")
      => \A i \in DOMAIN detected :
            detected[i].suggestedDebtType = FirstMatchingType(detected[i])

C24_Witness ==
    /\ AllIdle
    /\ last.op = "detect"
    /\ Len(detected) = 1
    /\ Like(detected[1].accountName, AutoWords)
    /\ Like(detected[1].accountName, StudentWords)
    /\ detected[1].balance < -10000000
    /\ detected[1].suggestedDebtType = "mortgage"

\* A setupInterestSchedule or deleteInterestSchedule has returned on the
\* account on which the call before it was the same operation and was
\* interrupted by a storage failure.
Retried(op) ==
    /\ AllIdle
    /\ last.op = op
    /\ last.error = ""
    /\ last.prior = op \o "_failed"

\* No call has been made on another account, so every stored schedule record
\* is the account's.
OnlyAccount(a) == \A b \in AccountIds \ {a} : lastOp[b] = ""

\* C25 as stated: after a delete retried to completion the account has no
\* schedule, next-date record, rule, condition or action left, and after a
\* setup retried to completion it has exactly one schedule and exactly one
\* rule with an account-match condition.
C25_RetryLeavesNoOrphan ==
    /\ (Retried("delete") /\ OnlyAccount(last.accountId))
          => /\ schedules = {}
             /\ schedules_next_date = {}
             /\ rules = {}
             /\ rule_conditions = {}
             /\ rule_actions = {}
    /\ (Retried("setup") /\ OnlyAccount(last.accountId))
          => /\ Cardinality(schedules) = 1
             /\ Cardinality({r \in rules :
                               \E c \in rule_conditions :
                                   /\ c.rule = r.id
                                   /\ c.field = "acct"
                                   /\ c.value = last.accountId}) = 1

\* C25 as amended: after a delete retried to completion the account has no
\* schedule, and after a setup retried to completion it has exactly one.
C25_RetryLeavesOneScheduleOrNone ==
    /\ Retried("delete") => AccountSchedules(Store, last.accountId) = {}
    /\ Retried("setup") => Cardinality(AccountSchedules(Store, last.accountId)) = 1

C25_Witness ==
    /\ Retried("delete")
    /\ AccountSchedules(Store, last.accountId) = {}
    /\ IsNone(last.existing)
    /\ \E c \in rule_conditions : c.field = "acct" /\ c.value = last.accountId

\* C26: with the schedule mutations of each account made one after the other
\* and calls on different accounts running concurrently, there is never more
\* than one payee named Interest Charge.
C26_PayeeSingletonAcrossAccounts ==
    mode = "acct" => Cardinality(InterestPayees) <= 1

\* The schedule records of store st that belong to the accounts other than a:
\* their schedules and the next-date records, rules, conditions and actions of
\* these.
OthersRecords(st, a) ==
    LET others == UNION {AccountSchedules(st, b) : b \in AccountIds \ {a}}
    IN  [schedules |-> others,
         schedules_next_date |->
             {n \in st.schedules_next_date : \E x \in others : n.schedule_id = x.id},
         rules |-> {r \in st.rules : \E x \in others : r.id = x.rule},
         rule_conditions |->
             {c \in st.rule_conditions : \E x \in others : c.rule = x.rule},
         rule_actions |->
             {c \in st.rule_actions : \E x \in others : c.rule = x.rule}]

\* C27: every step of a setupInterestSchedule or deleteInterestSchedule for an
\* account leaves the schedules, next-date records, rules, conditions and
\* actions of the other accounts, the transactions and the accounts as they
\* were, and every step of a postInterestTransaction leaves the schedules,
\* next-date records, rules, conditions and actions as they were.
C27_OtherAccountsUntouched ==
    [][\A p \in Slots :
          pc'[p] # pc[p]
            => LET call == IF pc[p] = "idle" THEN loc'[p] ELSE loc[p]
               IN  /\ call.op \in ScheduleOps
                     => /\ OthersRecords(Store', call.accountId)
                              = OthersRecords(Store, call.accountId)
                        /\ UNCHANGED <<transactions, accounts>>
                   /\ call.op = "post"
                     => UNCHANGED <<rules, rule_conditions, rule_actions, schedules,
                                    schedules_next_date>>]_vars

C27_Witness ==
    /\ AllIdle
    /\ last.op = "delete"
    /\ ~IsNone(last.existing)
    /\ AccountSchedules(Store, last.accountId) = {}
    /\ \E b \in AccountIds \ {last.accountId} :
          /\ AccountSchedules(Store, b) # {}
          /\ OthersRecords(Store, last.accountId)
                = OthersRecords(last.pre, last.accountId)

\* The interest postings of store st on account a at the given APR and scheme,
\* known by their note, and the account's other live transactions.
Postings(st, a, apr, interestScheme) ==
    {t \in LiveTransactions(st, a) : t.notes = InterestNote(apr, interestScheme)}

OpeningBalance(st, a) == Total({t \in LiveTransactions(st, a) : t.notes = <<>>})

\* C28: when a postInterestTransaction has returned a transaction on an
\* account that owed before any posting, with an APR above 0, the account's
\* live balance is below what it was when the call started, and the interest
\* posted is not below that of any earlier posting on the account at the same
\* APR and scheme.
C28_PostingsGrowTheDebt ==
    (/\ AllIdle
     /\ last.op = "post"
     /\ last.error = ""
     /\ last.apr > 0
     /\ OpeningBalance(last.pre, last.accountId) < 0)
      => /\ LiveBalance(last.pre, last.accountId) < 0
         /\ LiveBalance(Store, last.accountId) < LiveBalance(last.pre, last.accountId)
         /\ \A t \in Postings(last.pre, last.accountId, last.apr, last.interestScheme) :
               Abs(t.amount) <= last.interestAmount

C28_Witness ==
    /\ AllIdle
    /\ last.op = "post"
    /\ last.error = ""
    /\ OpeningBalance(last.pre, last.accountId) < 0
    /\ Cardinality(Postings(last.pre, last.accountId, last.apr,
                            last.interestScheme)) = 2
    /\ \A t \in Postings(last.pre, last.accountId, last.apr, last.interestScheme) :
          Abs(t.amount) < last.interestAmount

\* What the server holds for the wizard: the migrated schema and the debt
\* accounts.
WizardLedger(w) == [migrated |-> w.migrated, is_debt |-> w.is_debt]

\* C29: whenever Apply Changes (or Retry) has failed, the ledger is as it was
\* when the button was pressed, so that no selected account is a debt account
\* because of it, the wizard shows the error and is not on the 'complete' step,
\* and debt tracking is not flagged as enabled.
C29_FailedApplyRolledBack ==
    wizard.applyStatus = "error"
      => /\ WizardLedger(wizard) = wizard.before
         /\ wizard.errorMessage # None
         /\ wizard.step # "complete"
         /\ ~wizard.debtTrackingEnabled

\* C30: the 'detect' and 'apply' steps are entered, and handleApply is started,
\* only when backupCreated is true, and backupCreated, once true, stays true.
C30_BackupBeforeDetectAndApply ==
    [][/\ wizard.backupCreated => wizard'.backupCreated
       /\ (wizard'.step # wizard.step /\ wizard'.step \in {"detect", "apply"})
            => wizard.backupCreated /\ wizard'.backupCreated
       /\ (wizard.apply.pc = "idle" /\ wizard'.apply.pc # "idle")
            => wizard.backupCreated /\ wizard'.backupCreated]_vars

\* Retry has started handleApply again, after a backup was made and a later
\* Download Backup failed.
C30_Witness ==
    /\ wizard.backupCreated
    /\ wizard.backupError # None
    /\ wizard.step = "apply"
    /\ wizard.apply.pc = "convert"
    /\ wizard.is_debt # {}

====
